---------------------------- MODULE Spec2Model ----------------------------
(* A model of the orbit-targets drivers: gsim, msim, vsim, voodoo and       *)
(* targets/xsim.py under src/targets, quartz, xpro and xsim under           *)
(* src/scripts.  Each driver is a sequential script that parses its         *)
(* command line, reads the blueprint, optionally writes a control script    *)
(* and spawns vendor tools, waiting for each one.                           *)
(*                                                                          *)
(* Text is modelled as a sequence of atoms (short strings): a blueprint     *)
(* line is its fields with "\t" atoms between them, a generic override is   *)
(* its characters, an argument of a command is the concatenation of its     *)
(* parts.                                                                   *)
EXTENDS Integers, Sequences, FiniteSets, TLC

VARIABLES
    driver,     \* the script that runs
    pc,         \* the statement the script is at
    args,       \* the command line, drawn when the script starts
    env,        \* the environment variables and the files found on disk
    blueprint,  \* the blueprint file: a sequence of lines
    generics,   \* the parsed generic overrides
    order,      \* compile_order / rtl_order / vhdl_sources: the kept records
    idx,        \* the index of the loop over the records (1-based)
    libraries,  \* msim: the libraries created so far
    work_lib,   \* msim: work_lib; scripts/xsim: local_lib
    py_model,   \* targets/xsim: the PY-MODEL path, <<>> for None
    loc,        \* the other locals of the script that runs (a record)
    tcl,        \* the Tcl builder: [data, indent]
    pushed,     \* history: the text appended by each push, in order
    disk,       \* the files written by the script: name -> [text, writes]
    log,        \* history: every subprocess spawned, in spawn order
    live,       \* indices into log of the children that are alive
    exitcode,   \* the script's exit code, -1 while it runs
    gen_s,      \* round trip of Generic: the token given to from_str
    gen_g,      \* round trip of Generic: the parsed Generic, None, or "unparsed"
    gen_out,    \* round trip of Generic: the text to_str returned
    called      \* the Tcl builder on its own: the last call made on it

vars == <<driver, pc, args, env, blueprint, generics, order, idx, libraries,
          work_lib, py_model, loc, tcl, pushed, disk, log, live, exitcode,
          gen_s, gen_g, gen_out, called>>

progvars == <<driver, pc, args, env, blueprint, generics, order, idx, libraries,
              work_lib, py_model, loc, tcl, pushed, disk, log, live, exitcode>>

genvars == <<gen_s, gen_g, gen_out, called>>

-----------------------------------------------------------------------------
(* Bounds of the model.                                                     *)

MaxLines == 2

MaxGenerics == 2

MaxStrLen == 4

MaxPushes == 2

MaxDepth == 2

MaxSaves == 1

-----------------------------------------------------------------------------
(* Text helpers.                                                            *)

None == [none |-> TRUE]

Whitespace == {" ", "\n", "\t"}

RECURSIVE LStrip(_)
LStrip(s) == IF s # <<>> /\ Head(s) \in Whitespace THEN LStrip(Tail(s)) ELSE s

RECURSIVE RStrip(_)
RStrip(s) ==
    IF s # <<>> /\ s[Len(s)] \in Whitespace THEN RStrip(SubSeq(s, 1, Len(s) - 1)) ELSE s

Strip(s) == RStrip(LStrip(s))

RECURSIVE Concat(_)
Concat(ss) == IF ss = <<>> THEN <<>> ELSE Head(ss) \o Concat(Tail(ss))

RECURSIVE SeqsUpTo(_, _)
SeqsUpTo(S, n) ==
    IF n = 0 THEN {<<>>}
    ELSE LET shorter == SeqsUpTo(S, n - 1)
         IN  shorter \cup {Append(s, x) : s \in shorter, x \in S}

IsPrefix(s, t) == Len(s) <= Len(t) /\ SubSeq(t, 1, Len(s)) = s

(* The position of the first sep in s, 0 when there is none. *)
RECURSIVE Find(_, _, _)
Find(s, sep, from) ==
    IF from > Len(s) THEN 0
    ELSE IF s[from] = sep THEN from ELSE Find(s, sep, from + 1)

(* str.split(sep, maxsplit): at most maxsplit splits, left to right; a     *)
(* negative maxsplit is no limit.  The empty text splits to [''].           *)
RECURSIVE Split(_, _, _)
Split(s, sep, maxsplit) ==
    LET at == Find(s, sep, 1)
    IN  IF maxsplit = 0 \/ at = 0 THEN <<s>>
        ELSE <<SubSeq(s, 1, at - 1)>>
                 \o Split(SubSeq(s, at + 1, Len(s)), sep, maxsplit - 1)

-----------------------------------------------------------------------------
(* Generic of targets/xsim.py.                                              *)

GenericSplitAll(s) == Split(s, "=", -1)

GenericSplit(s) == Split(s, "=", 1)

from_str(s) ==
    LET words == GenericSplit(s)
    IN  IF Len(words) # 2 THEN None
        ELSE [key |-> words[1], val |-> words[2]]

to_str(g) == g.key \o <<"=">> \o g.val

-----------------------------------------------------------------------------
(* Round trip of Generic: from_str, then to_str.                            *)

Unparsed == [unparsed |-> TRUE]

GenericChars == {"=", "k", "v"}

GenericInit ==
    /\ gen_s \in SeqsUpTo(GenericChars, MaxStrLen)
    /\ gen_g = Unparsed
    /\ gen_out = <<>>
    /\ called = [op |-> "none"]

GenericParse ==
    /\ gen_g = Unparsed
    /\ gen_g' = from_str(gen_s)
    /\ UNCHANGED <<gen_s, gen_out, called>>

GenericSerialize ==
    /\ gen_g \notin {Unparsed, None}
    /\ gen_out = <<>>
    /\ gen_out' = to_str(gen_g)
    /\ UNCHANGED <<gen_s, gen_g, called>>

-----------------------------------------------------------------------------
(* Inputs: blueprint lines, generic tokens, command lines, environments.    *)

Line(fileset, lib, path) == <<fileset, "\t", lib, "\t", path>>

VhdlA == Line("VHDL", "work", "a.vhd")
VhdlB == Line("VHDL", "lib2", "b.vhd")
VlogC == Line("VLOG", "work", "c.v")
SysvD == Line("SYSV", "lib2", "d.sv")
XdcfE == Line("XDCF", "work", "e.xdc")
LowerF == Line("vhdl", "work", "f.vhd")
BlankLine == <<>>
TwoFields == <<"VHDL", "\t", "work">>
VhdlRtl == Line("VHDL-RTL", "work", "a.vhd")
PyModel == Line("PY-MODEL", "m", "model.py")
DoW == Line("DO", "work", "w.do")
Board1 == <<"BOARD", "\t", "b", "\t", "boards/", "b1", ".board">>
Board2 == <<"BOARD", "\t", "b", "\t", "b2", ".board">>
Board4 == <<"BOARD", "\t", "b", "\t", "b4", ".board">>

(* the text of w.do: one command; commands among blank lines; a last line  *)
(* without its newline                                                     *)
DoOne == <<"add wave x", "\n">>
DoBlanks == <<"\n", "add wave x", "\n", " ", "\t", "\n", "add wave y", "\n">>
DoNoEol == <<"add wave x", "\n", "add wave y">>

GenA == <<"A", "=", "1">>
GenB == <<"B", "=", "2">>
GenBad == <<"W">>

Drivers == {"gsim", "msim", "vsim", "voodoo", "xpro", "xsimt", "xsims", "quartz"}

LinesOf(d) ==
    CASE d = "gsim" -> {VhdlA, VhdlB, VlogC, LowerF}
      [] d = "msim" -> {VhdlA, VhdlB, VlogC, SysvD, DoW}
      [] d = "vsim" -> {VlogC, SysvD, VhdlA}
      [] d = "voodoo" -> {VhdlA, VlogC, SysvD, XdcfE, LowerF, BlankLine, TwoFields}
      [] d = "xpro" -> {VhdlA, VlogC, SysvD, XdcfE, BlankLine, TwoFields}
      [] d = "xsimt" -> {VhdlRtl, PyModel, BlankLine, TwoFields}
      [] d = "xsims" -> {VhdlA, VhdlB, VlogC, XdcfE}
      [] d = "quartz" -> {VhdlA, Board1, Board2, Board4}
      [] OTHER -> {VhdlA}

TokensOf(d) ==
    CASE d \in {"gsim", "msim", "vsim", "xsims"} -> {GenA, GenB}
      [] d = "xsimt" -> {GenA, GenBad}
      [] OTHER -> {GenA}

NoArgs == [generic |-> <<>>, lint |-> FALSE, gui |-> FALSE, stop_at_sim |-> [given |-> FALSE, value |-> <<>>],
           strict |-> FALSE, run |-> "", no_gui |-> FALSE, part |-> <<>>,
           comp |-> FALSE, elab |-> FALSE, sim |-> FALSE, script |-> FALSE,
           mode |-> "", synth |-> FALSE, route |-> FALSE, sta |-> FALSE,
           bit |-> FALSE, eda_netlist |-> FALSE, compile |-> FALSE, open |-> FALSE,
           prog_sram |-> FALSE, prog_flash |-> FALSE, board |-> <<>>,
           family |-> <<>>, device |-> <<>>]

ArgsOf(d) ==
    LET gs == SeqsUpTo(TokensOf(d), MaxGenerics)
    IN  CASE d = "gsim" ->
               {[NoArgs EXCEPT !.generic = g, !.lint = l] : g \in gs, l \in BOOLEAN}
          [] d = "msim" ->
               {[NoArgs EXCEPT !.generic = g, !.lint = l, !.gui = u, !.stop_at_sim = t] :
                    g \in gs, l \in BOOLEAN, u \in BOOLEAN,
                    t \in {[given |-> FALSE, value |-> <<>>], [given |-> TRUE, value |-> <<"1">>]}}
               \cup
               {[NoArgs EXCEPT !.gui = u, !.stop_at_sim = [given |-> TRUE, value |-> <<>>]] :
                    u \in BOOLEAN}
          [] d = "vsim" ->
               {[NoArgs EXCEPT !.generic = g, !.lint = l, !.strict = w] :
                    g \in gs, l \in BOOLEAN, w \in BOOLEAN}
          [] d = "voodoo" ->
               {[NoArgs EXCEPT !.generic = g, !.run = r, !.part = <<"xc7">>] :
                    g \in gs, r \in {"synth", "impl", "route", "bit", "pgm"}}
          [] d = "xpro" ->
               {[NoArgs EXCEPT !.generic = g, !.run = r, !.no_gui = n, !.part = p] :
                    g \in gs, r \in {"", "synth", "impl", "bit"}, n \in BOOLEAN,
                    p \in {<<>>, <<"xc7">>}}
          [] d = "xsimt" ->
               {[NoArgs EXCEPT !.generic = g, !.comp = c, !.elab = e, !.sim = m,
                               !.script = o, !.mode = "cl"] :
                    g \in gs, c \in BOOLEAN, e \in BOOLEAN, m \in BOOLEAN, o \in BOOLEAN}
               \cup
               {[NoArgs EXCEPT !.comp = c, !.elab = e, !.sim = TRUE, !.mode = v] :
                    c \in BOOLEAN, e \in BOOLEAN, v \in {"gui", "review"}}
          [] d = "xsims" ->
               {[NoArgs EXCEPT !.generic = g, !.mode = v] :
                    g \in gs, v \in {"comp", "elab", "sim"}}
          [] d = "quartz" ->
               {[NoArgs EXCEPT !.generic = g, !.synth = a, !.route = b, !.sta = c,
                               !.bit = e, !.eda_netlist = f, !.compile = h,
                               !.family = <<"CYCLONE">>, !.device = <<"EP4CE">>] :
                    g \in gs, a \in BOOLEAN, b \in BOOLEAN, c \in BOOLEAN,
                    e \in BOOLEAN, f \in BOOLEAN, h \in BOOLEAN}
               \cup
               {[NoArgs EXCEPT !.bit = e, !.open = o, !.prog_sram = r, !.prog_flash = l,
                               !.board = n, !.family = y, !.device = v] :
                    e \in BOOLEAN, o \in BOOLEAN, r \in BOOLEAN, l \in BOOLEAN,
                    n \in {<<>>, <<"b1">>, <<"b3">>},
                    y \in {<<>>, <<"CYCLONE">>}, v \in {<<>>, <<"EP4CE">>}}
          [] OTHER -> {NoArgs}

(* tb: ORBIT_TB_NAME (ORBIT_BENCH for targets/xsim), <<>> when unset.  The  *)
(* variables a script requires (missing_ok=False) are set by the host tool. *)
(* do: whether the file w.do exists, and its text *)
NoEnv == [tb |-> <<"tb">>, xpr |-> FALSE, do |-> [exists |-> FALSE, text |-> <<>>]]

EnvOf(d) ==
    CASE d \in {"gsim", "vsim", "xsimt", "xsims"} ->
           {[NoEnv EXCEPT !.tb = t] : t \in {<<>>, <<"tb">>}}
      [] d = "msim" ->
           {[NoEnv EXCEPT !.tb = t] : t \in {<<>>, <<"tb">>}}
           \cup {[NoEnv EXCEPT !.do = [exists |-> TRUE, text |-> f]] :
                     f \in {DoOne, DoBlanks, DoNoEol}}
      [] d = "xpro" -> {[NoEnv EXCEPT !.xpr = x] : x \in BOOLEAN}
      [] OTHER -> {NoEnv}

-----------------------------------------------------------------------------
(* Subprocesses.  A child is spawned, runs, and ends with an exit code; the *)
(* call that spawned it returns when the child has ended.                   *)

Running == -1

ExitCodes == {0, 1}

Spawned(cmd, argv) == [cmd |-> cmd, argv |-> argv, at |-> <<pc, idx>>, rc |-> Running]

Spawn(cmd, argv) ==
    /\ log' = Append(log, Spawned(cmd, argv))
    /\ live' = live \cup {Len(log) + 1}

(* Command.spawn() (mod): blocks until the child has ended. *)
spawn_returned == live = {}

(* The status the caller reads of the child it spawned last; a child that   *)
(* was not waited for has reported no failure.                              *)
LastStatus ==
    LET c == log[Len(log)] IN IF c.rc = Running THEN 0 ELSE c.rc

Exit(code) == pc' = "exit" /\ exitcode' = code

(* an unwrap that lets every status pass *)
UnwrapNeverFails(status) == FALSE

(* Status.unwrap() (mod): a failed subprocess is a fatal error. *)
UnwrapFails(status) == status # 0

ChildExit ==
    \E c \in live, rc \in ExitCodes :
        /\ log' = [log EXCEPT ![c].rc = rc]
        /\ live' = live \ {c}
        /\ UNCHANGED <<driver, pc, args, env, blueprint, generics, order, idx,
                       libraries, work_lib, py_model, loc, tcl, pushed, disk, exitcode>>

-----------------------------------------------------------------------------
(* Blueprint and Generic of mod, as the scripts use them.                   *)

Step(fields) == [fset |-> fields[1], lib |-> fields[2], path |-> fields[3]]

(* Blueprint().parse(): each line split on tabs into three fields. *)
ParseLine(line) == Split(line, "\t", -1)

ParseOk(lines) == \A i \in 1..Len(lines) : Len(ParseLine(lines[i])) = 3

Parse(lines) == [i \in 1..Len(lines) |-> Step(ParseLine(lines[i]))]

is_vhdl(step) == step.fset = <<"VHDL">>
is_vlog(step) == step.fset = <<"VLOG">>
is_sysv(step) == step.fset = <<"SYSV">>
is_builtin(step) == is_vhdl(step) \/ is_vlog(step) \/ is_sysv(step)
is_aux(step, tag) == step.fset = <<tag>>

(* Generic.from_arg (mod), the argparse type of --generic: KEY=VALUE split  *)
(* on the first "="; a token without "=" is an argparse error.              *)
from_arg(s) == from_str(s)

ArgsOk(tokens) == \A i \in 1..Len(tokens) : from_arg(tokens[i]) # None

ParseGenerics(tokens) == [i \in 1..Len(tokens) |-> from_arg(tokens[i])]

(* ['-g' + item.to_str() for item in GENERICS] *)
DashG(gs) == [i \in 1..Len(gs) |-> <<"-g">> \o to_str(gs[i])]

-----------------------------------------------------------------------------
(* targets/gsim.py                                                          *)

(* a script that does not look at --lint *)
LintIgnored == FALSE

(* gsim.py 37, msim.py 38: LINT_ONLY = bool(args.lint) *)
LINT_ONLY == args.lint

GHDL_OPTS == <<<<"--ieee=synopsys">>, <<"--syn-binding">>, <<"--std=", "93">>>>

gsim_start ==
    /\ driver = "gsim" /\ pc = "start"
    /\ IF ~ArgsOk(args.generic)
         THEN Exit(2) /\ UNCHANGED <<generics, order>>
       ELSE IF ~ParseOk(blueprint)
         THEN Exit(1) /\ UNCHANGED <<generics, order>>
       ELSE /\ generics' = ParseGenerics(args.generic)
            /\ order' = SelectSeq(Parse(blueprint), is_vhdl)
            /\ pc' = "analyze"
            /\ UNCHANGED exitcode
    /\ UNCHANGED <<driver, args, env, blueprint, idx, libraries, work_lib,
                   py_model, loc, tcl, pushed, disk, log, live>>

gsim_analyze ==
    /\ driver = "gsim" /\ pc = "analyze" /\ idx <= Len(order)
    /\ Spawn("ghdl", <<<<"-a">>>> \o GHDL_OPTS
                     \o <<<<"--work=">> \o order[idx].lib, order[idx].path>>)
    /\ pc' = "analyze_ret"
    /\ UNCHANGED <<driver, args, env, blueprint, generics, order, idx, libraries,
                   work_lib, py_model, loc, tcl, pushed, disk, exitcode>>

gsim_analyze_ret ==
    /\ driver = "gsim" /\ pc = "analyze_ret" /\ spawn_returned
    /\ IF UnwrapFails(LastStatus)
         THEN Exit(101) /\ UNCHANGED idx
         ELSE pc' = "analyze" /\ idx' = idx + 1 /\ UNCHANGED exitcode
    /\ UNCHANGED <<driver, args, env, blueprint, generics, order, libraries,
                   work_lib, py_model, loc, tcl, pushed, disk, log, live>>

gsim_simulate ==
    /\ driver = "gsim" /\ pc = "analyze" /\ idx > Len(order)
    /\ IF LINT_ONLY
         THEN Exit(0) /\ UNCHANGED <<log, live>>
       ELSE IF env.tb = <<>>
         THEN Exit(101) /\ UNCHANGED <<log, live>>
       ELSE /\ Spawn("ghdl", <<<<"-r">>>> \o GHDL_OPTS
                        \o <<<<"--work=", "work">>, env.tb,
                             <<"--vcd=">> \o env.tb \o <<".vcd">>,
                             <<"--assert-level=", "error">>>>
                        \o DashG(generics))
            /\ pc' = "sim_ret"
            /\ UNCHANGED exitcode
    /\ UNCHANGED <<driver, args, env, blueprint, generics, order, idx, libraries,
                   work_lib, py_model, loc, tcl, pushed, disk>>

gsim_sim_ret ==
    /\ driver = "gsim" /\ pc = "sim_ret" /\ spawn_returned
    /\ Exit(IF UnwrapFails(LastStatus) THEN 101 ELSE 0)
    /\ UNCHANGED <<driver, args, env, blueprint, generics, order, idx, libraries,
                   work_lib, py_model, loc, tcl, pushed, disk, log, live>>

-----------------------------------------------------------------------------
(* targets/msim.py                                                          *)

DO_FILE == "orbit.do"

Write(name, text) ==
    disk' = [n \in DOMAIN disk \cup {name} |->
                IF n = name
                  THEN [text |-> text,
                        writes |-> IF n \in DOMAIN disk THEN disk[n].writes + 1 ELSE 1]
                  ELSE disk[n]]

(* a membership test that takes every library for already created *)
AlwaysIn(x, s) == TRUE

InSeq(x, s) == \E i \in 1..Len(s) : s[i] = x

msim_start ==
    /\ driver = "msim" /\ pc = "start"
    /\ IF ~ArgsOk(args.generic)
         THEN Exit(2) /\ UNCHANGED <<generics, order>>
       ELSE IF ~ParseOk(blueprint)
         THEN Exit(1) /\ UNCHANGED <<generics, order>>
       ELSE /\ generics' = ParseGenerics(args.generic)
            /\ order' = SelectSeq(Parse(blueprint), is_builtin)
            /\ pc' = "compile"
            /\ UNCHANGED exitcode
    /\ UNCHANGED <<driver, args, env, blueprint, idx, libraries, work_lib,
                   py_model, loc, tcl, pushed, disk, log, live>>

msim_vlib ==
    /\ driver = "msim" /\ pc = "compile" /\ idx <= Len(order)
    /\ ~InSeq(order[idx].lib, libraries)
    /\ Spawn("vlib", <<order[idx].lib>>)
    /\ pc' = "vlib_ret"
    /\ UNCHANGED <<driver, args, env, blueprint, generics, order, idx, libraries,
                   work_lib, py_model, loc, tcl, pushed, disk, exitcode>>

msim_vmap ==
    /\ driver = "msim" /\ pc = "vlib_ret" /\ spawn_returned
    /\ IF UnwrapFails(LastStatus)
         THEN Exit(101) /\ UNCHANGED <<log, live>>
         ELSE /\ Spawn("vmap", <<order[idx].lib, order[idx].lib>>)
              /\ pc' = "vmap_ret"
              /\ UNCHANGED exitcode
    /\ UNCHANGED <<driver, args, env, blueprint, generics, order, idx, libraries,
                   work_lib, py_model, loc, tcl, pushed, disk>>

msim_vmap_ret ==
    /\ driver = "msim" /\ pc = "vmap_ret" /\ spawn_returned
    /\ IF UnwrapFails(LastStatus)
         THEN Exit(101) /\ UNCHANGED libraries
         ELSE /\ libraries' = Append(libraries, order[idx].lib)
              /\ pc' = "compile"
              /\ UNCHANGED exitcode
    /\ UNCHANGED <<driver, args, env, blueprint, generics, order, idx, work_lib,
                   py_model, loc, tcl, pushed, disk, log, live>>

CompileCommand(step) ==
    IF is_vhdl(step) THEN [cmd |-> "vcom", argv |-> <<<<"-work">>, step.lib, step.path>>]
    ELSE IF is_vlog(step) THEN [cmd |-> "vlog", argv |-> <<<<"-work">>, step.lib, step.path>>]
    ELSE [cmd |-> "vlog", argv |-> <<<<"-sv">>, <<"-work">>, step.lib, step.path>>]

msim_compile ==
    /\ driver = "msim" /\ pc = "compile" /\ idx <= Len(order)
    /\ InSeq(order[idx].lib, libraries)
    /\ Spawn(CompileCommand(order[idx]).cmd, CompileCommand(order[idx]).argv)
    /\ pc' = "compile_ret"
    /\ UNCHANGED <<driver, args, env, blueprint, generics, order, idx, libraries,
                   work_lib, py_model, loc, tcl, pushed, disk, exitcode>>

msim_compile_ret ==
    /\ driver = "msim" /\ pc = "compile_ret" /\ spawn_returned
    /\ IF UnwrapFails(LastStatus)
         THEN Exit(101) /\ UNCHANGED <<idx, work_lib>>
         ELSE /\ work_lib' = order[idx].lib
              /\ idx' = idx + 1
              /\ pc' = "compile"
              /\ UNCHANGED exitcode
    /\ UNCHANGED <<driver, args, env, blueprint, generics, order, libraries,
                   py_model, loc, tcl, pushed, disk, log, live>>

(* lines 20 and 37: the option stores a value (given: whether it is on the *)
(* command line) and STOP_AT_SIM = bool(args.stop_at_sim)                  *)
STOP_AT_SIM == args.stop_at_sim.given /\ args.stop_at_sim.value # <<>>

(* lines 50-54: the path of the last DO record, <<>> (None) when there is none *)
RECURSIVE TbDoFile(_, _)
TbDoFile(steps, tb_do_file) ==
    IF steps = <<>> THEN tb_do_file
    ELSE TbDoFile(Tail(steps),
                  IF is_aux(Head(steps), "DO") THEN Head(steps).path ELSE tb_do_file)

(* do.readlines(): the text cut after every newline, which the line keeps *)
RECURSIVE readlines(_)
readlines(text) ==
    IF text = <<>> THEN <<>>
    ELSE IF \E k \in 1..Len(text) : text[k] = "\n"
      THEN LET k == CHOOSE n \in 1..Len(text) :
                        text[n] = "\n" /\ \A m \in 1..(n - 1) : text[m] # "\n"
           IN  <<SubSeq(text, 1, k)>> \o readlines(SubSeq(text, k + 1, Len(text)))
      ELSE <<text>>

(* lines 96-100: the non-blank lines of the imported file, as read *)
Import(text) ==
    LET NonBlank(line) == Len(Strip(line)) > 0
    IN  Concat(SelectSeq(readlines(text), NonBlank))

(* lines 90-110: the text of orbit.do *)
DoText ==
    LET tb_do_file == TbDoFile(Parse(blueprint), <<>>)
    IN  (IF args.gui
           THEN IF tb_do_file # <<>> /\ env.do.exists
                  THEN Import(env.do.text) ELSE <<"add wave *", "\n">>
           ELSE <<>>)
        \o (IF ~STOP_AT_SIM THEN <<"run -all", "\n">> ELSE <<>>)
        \o (IF ~args.gui THEN <<"quit", "\n">> ELSE <<>>)

msim_simulate ==
    /\ driver = "msim" /\ pc = "compile" /\ idx > Len(order)
    /\ IF LINT_ONLY
         THEN Exit(0) /\ UNCHANGED <<log, live, disk>>
       ELSE IF env.tb = <<>>
         THEN Exit(101) /\ UNCHANGED <<log, live, disk>>
       ELSE /\ Write(DO_FILE, DoText)
            /\ Spawn("vsim", <<<<IF args.gui THEN "-gui" ELSE "-batch">>,
                               <<"-onfinish">>, <<"stop">>, <<"-do">>, <<DO_FILE>>,
                               <<"-wlf">>, <<"vsim.wlf">>, <<"-work">>, work_lib,
                               <<"+nowarn3116">>, env.tb>>
                             \o DashG(generics))
            /\ pc' = "sim_ret"
            /\ UNCHANGED exitcode
    /\ UNCHANGED <<driver, args, env, blueprint, generics, order, idx, libraries,
                   work_lib, py_model, loc, tcl, pushed>>

msim_sim_ret ==
    /\ driver = "msim" /\ pc = "sim_ret" /\ spawn_returned
    /\ Exit(IF UnwrapFails(LastStatus) THEN 101 ELSE 0)
    /\ UNCHANGED <<driver, args, env, blueprint, generics, order, idx, libraries,
                   work_lib, py_model, loc, tcl, pushed, disk, log, live>>

-----------------------------------------------------------------------------
(* targets/vsim.py (verilator)                                              *)

VERI_OPTS ==
    (IF args.lint THEN <<<<"--lint-only">>>> ELSE <<>>)
    \o (IF args.strict THEN <<<<"-Wall">>>> ELSE <<>>)

IsRtl(rule) == rule.fset = <<"VLOG">> \/ rule.fset = <<"SYSV">>

Paths(steps) == [i \in 1..Len(steps) |-> steps[i].path]

VerilatorArgs(opts, files) == opts \o files

vsim_start ==
    /\ driver = "vsim" /\ pc = "start"
    /\ IF ~ArgsOk(args.generic)
         THEN Exit(2) /\ UNCHANGED <<generics, order, log, live>>
       ELSE IF ~ParseOk(blueprint)
         THEN Exit(1) /\ UNCHANGED <<generics, order, log, live>>
       ELSE /\ generics' = ParseGenerics(args.generic)
            /\ order' = SelectSeq(Parse(blueprint), IsRtl)
            /\ Spawn("verilator", VerilatorArgs(VERI_OPTS, Paths(order')))
            /\ pc' = "verilator_ret"
            /\ UNCHANGED exitcode
    /\ UNCHANGED <<driver, args, env, blueprint, idx, libraries, work_lib,
                   py_model, loc, tcl, pushed, disk>>

vsim_verilator_ret ==
    /\ driver = "vsim" /\ pc = "verilator_ret" /\ spawn_returned
    /\ IF UnwrapFails(LastStatus) THEN Exit(101)
       ELSE IF args.lint THEN Exit(0)
       ELSE IF env.tb = <<>> THEN Exit(101)
       ELSE Exit(0)
    /\ UNCHANGED <<driver, args, env, blueprint, generics, order, idx, libraries,
                   work_lib, py_model, loc, tcl, pushed, disk, log, live>>

-----------------------------------------------------------------------------
(* The Tcl builder (class Tcl of targets/voodoo.py; scripts/xpro.py uses    *)
(* the Tcl of mod through the same calls).  A token of a pushed list is     *)
(* [esc, s]: an Esc(s), emitted verbatim, or a plain string s, quoted.      *)

Q(s) == [esc |-> FALSE, s |-> <<s>>]
QT(text) == [esc |-> FALSE, s |-> text]
Esc(s) == [esc |-> TRUE, s |-> <<s>>]

RECURSIVE Indentation(_)
Indentation(n) == IF n <= 0 THEN <<>> ELSE <<"  ">> \o Indentation(n - 1)

Token(c) == IF c.esc THEN c.s \o <<" ">> ELSE <<"\"">> \o c.s \o <<"\"">> \o <<" ">>

RECURSIVE Tokens(_, _)
Tokens(code, indent) ==
    IF code = <<>> THEN <<>>
    ELSE Indentation(indent) \o Token(Head(code)) \o Tokens(Tail(code), indent)

(* The text one push appends to _data. *)
PushText(code, end, raw, indent) ==
    IF raw THEN Indentation(indent) \o code \o end
           ELSE Tokens(code, indent) \o end

push(t, code, end, raw) ==
    [t EXCEPT !.data = t.data \o PushText(code, end, raw, t.indent)]

indent(t) == [t EXCEPT !.indent = t.indent + 1]

(* a dedent that does not stop at depth 0 *)
DedentBelowZero(t) == [t EXCEPT !.indent = t.indent - 1]

dedent(t) == [t EXCEPT !.indent = IF t.indent - 1 < 0 THEN 0 ELSE t.indent - 1]

NewTcl == [data |-> <<>>, indent |-> 0]

(* A script fragment: a sequence of builder calls, run in order. *)
P(code) == [op |-> "push", code |-> code, end |-> <<"\n">>, raw |-> FALSE]
R(s) == [op |-> "push", code |-> <<s>>, end |-> <<"\n">>, raw |-> TRUE]
In == [op |-> "indent"]
De == [op |-> "dedent"]

Call(t, c) ==
    IF c.op = "push" THEN push(t, c.code, c.end, c.raw)
    ELSE IF c.op = "indent" THEN indent(t)
    ELSE dedent(t)

RECURSIVE RunTcl(_, _)
RunTcl(t, calls) ==
    IF calls = <<>> THEN t ELSE RunTcl(Call(t, Head(calls)), Tail(calls))

(* history: the text each push of the fragment appends *)
RECURSIVE RunPushed(_, _)
RunPushed(t, calls) ==
    IF calls = <<>> THEN <<>>
    ELSE (IF Head(calls).op = "push"
            THEN <<PushText(Head(calls).code, Head(calls).end, Head(calls).raw, t.indent)>>
            ELSE <<>>)
         \o RunPushed(Call(t, Head(calls)), Tail(calls))

Emit(calls) ==
    /\ tcl' = RunTcl(tcl, calls)
    /\ pushed' = pushed \o RunPushed(tcl, calls)

TCL_FILE == "orbit.tcl"

(* a builder whose save writes nothing *)
SaveNothing == UNCHANGED disk

save == Write(TCL_FILE, tcl.data)

-----------------------------------------------------------------------------
(* targets/voodoo.py                                                        *)

StepValue(s) ==
    CASE s = "synth" -> 0 [] s = "impl" -> 1 [] s = "route" -> 2
      [] s = "bit" -> 3 [] s = "pgm" -> 4 [] OTHER -> -1

TOP == <<"top">>

BIT_FILE == TOP \o <<".bit">>

(* tcl_generics += ['-generic', str(g)] *)
RECURSIVE TclGenerics(_)
TclGenerics(gs) ==
    IF gs = <<>> THEN <<>>
    ELSE <<Q("-generic"), QT(to_str(Head(gs)))>> \o TclGenerics(Tail(gs))

synthesize(part, gens) ==
    << P(<<Q("synth_design"), Q("-top"), QT(TOP), Q("-part"), QT(part)>> \o gens),
       P(<<Q("write_checkpoint"), Q("-force"), Q("post_synth.dcp")>>),
       P(<<Q("report_timing_summary"), Q("-file"), Q("post_synth_timing_summary.rpt")>>),
       P(<<Q("report_utilization"), Q("-file"), Q("post_synth_util.rpt")>>) >>

implement ==
    << P(<<Q("opt_design")>>),
       P(<<Q("place_design")>>),
       P(<<Q("report_clock_utilization"), Q("-file"), Q("clock_util.rpt")>>),
       R("if {[get_property SLACK [get_timing_paths -max_paths 1 -nworst 1 -setup]] < 0} {"),
       In,
       P(<<Q("puts"), Q("info: found setup timing violations: running physical optimization ...")>>),
       P(<<Q("phys_opt_design")>>),
       De,
       R("}"),
       P(<<Q("write_checkpoint"), Q("-force"), Q("post_place.dcp")>>),
       P(<<Q("report_utilization"), Q("-file"), Q("post_place_util.rpt")>>),
       P(<<Q("report_timing_summary"), Q("-file"), Q("post_place_timing_summary.rpt")>>) >>

route ==
    << P(<<Q("route_design"), Q("-directive"), Q("Explore")>>),
       P(<<Q("write_checkpoint"), Q("-force"), Q("post_route.dcp")>>),
       P(<<Q("report_route_status"), Q("-file"), Q("post_route_status.rpt")>>),
       P(<<Q("report_timing_summary"), Q("-file"), Q("post_route_timing_summary.rpt")>>),
       P(<<Q("report_power"), Q("-file"), Q("post_route_power.rpt")>>),
       P(<<Q("report_drc"), Q("-file"), Q("post_impl_drc.rpt")>>) >>

bitstream(bit_file) ==
    << P(<<Q("write_verilog"), Q("-force"),
           QT(<<"cpu_impl_netlist_">> \o TOP \o <<".v">>),
           Q("-mode"), Q("timesim"), Q("-sdf_anno"), Q("true")>>),
       P(<<Q("write_bitstream"), Q("-force"), QT(bit_file)>>) >>

program_device(bit_file) ==
    << P(<<Q("open_hw_manager")>>),
       P(<<Q("connect_hw_server"), Q("-allow_non_jtag")>>),
       P(<<Q("open_hw_target")>>),
       R("set device [lindex [get_hw_devices \"xc*\"] 0]"),
       P(<<Q("puts"), Q("info: detected device $device ...")>>),
       P(<<Q("current_hw_device"), Q("$device")>>),
       P(<<Q("refresh_hw_device"), Q("-update_hw_probes"), Q("false"), Q("$device")>>),
       P(<<Q("set_property"), Q("PROBES.FILE"), Esc("{}"), Q("$device")>>),
       P(<<Q("set_property"), Q("FULL_PROBES.FILE"), Esc("{}"), Q("$device")>>),
       P(<<Q("set_property"), Q("PROGRAM.FILE"), QT(bit_file), Q("$device")>>),
       P(<<Q("program_hw_devices"), Q("$device")>>),
       P(<<Q("refresh_hw_device"), Q("$device")>>) >>

(* fh.read().splitlines(), then step.split('\t', maxsplit=3) unpacked into *)
(* three names: any other number of fields raises ValueError.              *)
(* a split that pads a short line with empty fields *)
SplitPadded(step) ==
    LET f == Split(step, "\t", 3)
    IN  IF Len(f) < 3 THEN f \o [i \in 1..(3 - Len(f)) |-> <<>>] ELSE f

VoodooSplit(step) == Split(step, "\t", 3)

(* a reader that takes the tag in either case *)
VoodooReadAnyCase(fields) ==
    LET fileset == fields[1]
        lib == fields[2]
        path == fields[3]
    IN  (IF fileset \in {<<"VHDL">>, <<"vhdl">>}
           THEN <<P(<<Q("read_vhdl"), Q("-library"), QT(lib), QT(path)>>)>> ELSE <<>>)
        \o (IF fileset \in {<<"VLOG">>, <<"vlog">>}
           THEN <<P(<<Q("read_verilog"), Q("-library"), QT(lib), QT(path)>>)>> ELSE <<>>)
        \o (IF fileset \in {<<"SYSV">>, <<"sysv">>}
           THEN <<P(<<Q("read_verilog"), Q("-sv"), Q("-library"), QT(lib), QT(path)>>)>>
           ELSE <<>>)
        \o (IF fileset \in {<<"XDCF">>, <<"xdcf">>}
           THEN <<P(<<Q("read_xdc"), QT(path)>>)>> ELSE <<>>)

(* a reader that forgets the constraint files *)
VoodooReadNoXdc(fields) ==
    LET fileset == fields[1]
        lib == fields[2]
        path == fields[3]
    IN  (IF fileset = <<"VHDL">>
           THEN <<P(<<Q("read_vhdl"), Q("-library"), QT(lib), QT(path)>>)>> ELSE <<>>)
        \o (IF fileset = <<"VLOG">>
           THEN <<P(<<Q("read_verilog"), Q("-library"), QT(lib), QT(path)>>)>> ELSE <<>>)
        \o (IF fileset = <<"SYSV">>
           THEN <<P(<<Q("read_verilog"), Q("-sv"), Q("-library"), QT(lib), QT(path)>>)>>
           ELSE <<>>)

VoodooRead(fields) ==
    LET fileset == fields[1]
        lib == fields[2]
        path == fields[3]
    IN  (IF fileset = <<"VHDL">>
           THEN <<P(<<Q("read_vhdl"), Q("-library"), QT(lib), QT(path)>>)>> ELSE <<>>)
        \o (IF fileset = <<"VLOG">>
           THEN <<P(<<Q("read_verilog"), Q("-library"), QT(lib), QT(path)>>)>> ELSE <<>>)
        \o (IF fileset = <<"SYSV">>
           THEN <<P(<<Q("read_verilog"), Q("-sv"), Q("-library"), QT(lib), QT(path)>>)>>
           ELSE <<>>)
        \o (IF fileset = <<"XDCF">>
           THEN <<P(<<Q("read_xdc"), QT(path)>>)>> ELSE <<>>)

voodoo_start ==
    /\ driver = "voodoo" /\ pc = "start"
    /\ IF ~ArgsOk(args.generic)
         THEN Exit(2) /\ UNCHANGED <<generics, tcl, pushed>>
         ELSE /\ generics' = ParseGenerics(args.generic)
              /\ Emit(<<P(<<Q("config_webtalk"), Q("-user"), Q("off")>>)>>)
              /\ pc' = "blueprint"
              /\ UNCHANGED exitcode
    /\ UNCHANGED <<driver, args, env, blueprint, order, idx, libraries, work_lib,
                   py_model, loc, disk, log, live>>

voodoo_step ==
    /\ driver = "voodoo" /\ pc = "blueprint" /\ idx <= Len(blueprint)
    /\ LET fields == VoodooSplit(blueprint[idx])
       IN  IF Len(fields) # 3
             THEN Exit(1) /\ UNCHANGED <<idx, tcl, pushed>>
             ELSE /\ Emit(VoodooRead(fields))
                  /\ idx' = idx + 1
                  /\ UNCHANGED <<pc, exitcode>>
    /\ UNCHANGED <<driver, args, env, blueprint, generics, order, libraries,
                   work_lib, py_model, loc, disk, log, live>>

(* a script that runs every stage whatever step was selected *)
AllFlows(eda_step) ==
    synthesize(args.part, TclGenerics(generics)) \o implement \o route
    \o bitstream(BIT_FILE) \o program_device(BIT_FILE)

VoodooFlows(eda_step) ==
    (IF eda_step >= 0 THEN synthesize(args.part, TclGenerics(generics)) ELSE <<>>)
    \o (IF eda_step >= 1 THEN implement ELSE <<>>)
    \o (IF eda_step >= 2 THEN route ELSE <<>>)
    \o (IF eda_step >= 3 THEN bitstream(BIT_FILE) ELSE <<>>)
    \o (IF eda_step >= 4 THEN program_device(BIT_FILE) ELSE <<>>)

voodoo_flows ==
    /\ driver = "voodoo" /\ pc = "blueprint" /\ idx > Len(blueprint)
    /\ Emit(VoodooFlows(StepValue(args.run)))
    /\ pc' = "save"
    /\ UNCHANGED <<driver, args, env, blueprint, generics, order, idx, libraries,
                   work_lib, py_model, loc, disk, log, live, exitcode>>

voodoo_save ==
    /\ driver = "voodoo" /\ pc = "save"
    /\ save
    /\ pc' = "vivado"
    /\ UNCHANGED <<driver, args, env, blueprint, generics, order, idx, libraries,
                   work_lib, py_model, loc, tcl, pushed, log, live, exitcode>>

VivadoArgs(mode) ==
    <<<<"-mode">>, <<mode>>, <<"-nojournal">>, <<"-nolog">>, <<"-source">>, <<TCL_FILE>>>>

voodoo_vivado ==
    /\ driver = "voodoo" /\ pc = "vivado"
    /\ Spawn("vivado", VivadoArgs("batch"))
    /\ pc' = "vivado_ret"
    /\ UNCHANGED <<driver, args, env, blueprint, generics, order, idx, libraries,
                   work_lib, py_model, loc, tcl, pushed, disk, exitcode>>

(* child = Command(...).spawn(); exit(0) *)
voodoo_exit ==
    /\ driver = "voodoo" /\ pc = "vivado_ret" /\ spawn_returned
    /\ Exit(0)
    /\ UNCHANGED <<driver, args, env, blueprint, generics, order, idx, libraries,
                   work_lib, py_model, loc, tcl, pushed, disk, log, live>>

-----------------------------------------------------------------------------
(* scripts/xpro.py                                                          *)

XPR_FILE == <<"ip", ".xpr">>

CurrentProject == <<Esc("["), Q("current_project"), Esc("]")>>

XproProject ==
    <<P(<<Q("config_webtalk"), Q("-user"), Q("off")>>)>>
    \o (IF env.xpr THEN <<P(<<Q("open_project"), QT(XPR_FILE)>>)>>
        ELSE IF Len(args.part) = 0
          THEN <<P(<<Q("create_project"), QT(XPR_FILE), Q(".")>>)>>
          ELSE <<P(<<Q("create_project"), Q("-part"), QT(args.part), QT(XPR_FILE), Q(".")>>)>>)
    \o <<P(<<Q("set_property"), Q("simulator_language"), Q("mixed")>> \o CurrentProject)>>
    \o (IF Len(args.part) > 0
          THEN <<P(<<Q("set_property"), Q("part"), QT(args.part)>> \o CurrentProject)>>
          ELSE <<>>)

AddSource(lib, path) ==
    << P(<<Q("set"), Q("file_obj"), Esc("["), Q("add_files"), Q("-fileset"),
           Q("sources_1"), QT(path), Esc("]")>>),
       R("if { $file_obj != \"\" } {"),
       In,
       P(<<Q("set_property"), Q("library"), QT(lib), Q("$file_obj")>>),
       De,
       R("}") >>

XproRead(fields) ==
    LET fileset == fields[1]
        lib == fields[2]
        path == fields[3]
    IN  (IF fileset = <<"VHDL">> THEN AddSource(lib, path) ELSE <<>>)
        \o (IF fileset = <<"VLOG">> \/ fileset = <<"SYSV">>
              THEN AddSource(lib, path) ELSE <<>>)
        \o (IF fileset = <<"XDCF">>
              THEN <<P(<<Q("add_files"), Q("-fileset"), Q("constrs_1"), QT(path)>>)>>
              ELSE <<>>)

(* a project that is always given verilog *)
AlwaysVerilog(vhdl_count, vlog_count) == "verilog"

target_language(vhdl_count, vlog_count) ==
    IF vlog_count >= vhdl_count THEN "verilog" ELSE "VHDL"

RECURSIVE unwind_generics(_)
unwind_generics(gs) ==
    IF gs = <<>> THEN <<>> ELSE to_str(Head(gs)) \o <<" ">> \o unwind_generics(Tail(gs))

XproSettings ==
    << P(<<Q("set_property"), Q("target_language"),
           Q(target_language(loc.vhdl_count, loc.vlog_count))>> \o CurrentProject),
       P(<<Q("set_property"), Q("top"), QT(TOP), Esc("["), Q("get_fileset"),
           Q("sources_1"), Esc("]")>>),
       P(<<Q("update_compile_order"), Q("-fileset"), Q("sources_1")>>) >>
    \o (IF Len(generics) > 0
          THEN << P(<<Q("set"), Q("original_generics"), Esc("["), Q("get_property"),
                      Q("generic"), Esc("["), Q("current_fileset"), Esc("]"), Esc("]")>>),
                  P(<<Q("set_property"), Q("generic"),
                      QT(<<"$original_generics ">> \o unwind_generics(generics)),
                      Esc("["), Q("current_fileset"), Esc("]")>>) >>
          ELSE <<>>)
    \o (IF StepValue(args.run) >= 0
          THEN <<P(<<Q("launch_runs"), Q("synth_1")>>), P(<<Q("wait_on_run"), Q("synth_1")>>)>>
          ELSE <<>>)
    \o (IF StepValue(args.run) >= 1
          THEN << (IF StepValue(args.run) >= 3
                     THEN P(<<Q("launch_runs"), Q("impl_1"), Q("-to_step"), Q("write_bitstream")>>)
                     ELSE P(<<Q("launch_runs"), Q("impl_1")>>)),
                  P(<<Q("wait_on_run"), Q("impl_1")>>) >>
          ELSE <<>>)
    \o (IF ~args.no_gui THEN <<P(<<Q("start_gui")>>)>> ELSE <<P(<<Q("exit")>>)>>)

xpro_start ==
    /\ driver = "xpro" /\ pc = "start"
    /\ IF ~ArgsOk(args.generic)
         THEN Exit(2) /\ UNCHANGED <<generics, tcl, pushed>>
         ELSE /\ generics' = ParseGenerics(args.generic)
              /\ Emit(XproProject)
              /\ pc' = "blueprint"
              /\ UNCHANGED exitcode
    /\ UNCHANGED <<driver, args, env, blueprint, order, idx, libraries, work_lib,
                   py_model, loc, disk, log, live>>

xpro_step ==
    /\ driver = "xpro" /\ pc = "blueprint" /\ idx <= Len(blueprint)
    /\ LET fields == VoodooSplit(blueprint[idx])
       IN  IF Len(fields) # 3
             THEN Exit(1) /\ UNCHANGED <<idx, tcl, pushed, loc>>
             ELSE /\ Emit(XproRead(fields))
                  /\ loc' = [loc EXCEPT
                        !.vhdl_count = @ + (IF fields[1] = <<"VHDL">> THEN 1 ELSE 0),
                        !.vlog_count = @ + (IF fields[1] = <<"VLOG">> \/ fields[1] = <<"SYSV">>
                                              THEN 1 ELSE 0)]
                  /\ idx' = idx + 1
                  /\ UNCHANGED <<pc, exitcode>>
    /\ UNCHANGED <<driver, args, env, blueprint, generics, order, libraries,
                   work_lib, py_model, disk, log, live>>

xpro_settings ==
    /\ driver = "xpro" /\ pc = "blueprint" /\ idx > Len(blueprint)
    /\ Emit(XproSettings)
    /\ pc' = "save"
    /\ UNCHANGED <<driver, args, env, blueprint, generics, order, idx, libraries,
                   work_lib, py_model, loc, disk, log, live, exitcode>>

xpro_save ==
    /\ driver = "xpro" /\ pc = "save"
    /\ save
    /\ pc' = "vivado"
    /\ UNCHANGED <<driver, args, env, blueprint, generics, order, idx, libraries,
                   work_lib, py_model, loc, tcl, pushed, log, live, exitcode>>

xpro_vivado ==
    /\ driver = "xpro" /\ pc = "vivado"
    /\ Spawn("vivado", VivadoArgs("batch"))
    /\ pc' = "vivado_ret"
    /\ UNCHANGED <<driver, args, env, blueprint, generics, order, idx, libraries,
                   work_lib, py_model, loc, tcl, pushed, disk, exitcode>>

(* Command(VIVADO_CMD).args(...).spawn(), then main() returns *)
xpro_exit ==
    /\ driver = "xpro" /\ pc = "vivado_ret" /\ spawn_returned
    /\ Exit(0)
    /\ UNCHANGED <<driver, args, env, blueprint, generics, order, idx, libraries,
                   work_lib, py_model, loc, tcl, pushed, disk, log, live>>

-----------------------------------------------------------------------------
(* targets/xsim.py                                                          *)

(* an os.system that does not wait for the command *)
ReturnsAtOnce == TRUE

(* os.system(code_line) returns when the command has ended. *)
os_system_returned == live = {}

(* an invoke that carries on after a failure *)
InvokeNeverFails(rc, exit_on_err) == FALSE

(* invoke: rc != 0 and exit_on_err == True stops the script. *)
InvokeFails(rc, exit_on_err) == rc # 0 /\ exit_on_err

(* blueprint.readlines(): every line keeps its newline *)
ReadLines(lines) == [i \in 1..Len(lines) |-> lines[i] \o <<"\n">>]

XsimSplit(rule) == Split(rule, "\t", -1)

XsimRulesOk(rules) == \A i \in 1..Len(rules) : Len(XsimSplit(rules[i])) = 3

XsimRule(rule) ==
    LET f == XsimSplit(rule)
    IN  [fileset |-> f[1], identifier |-> f[2], path |-> Strip(f[3])]

XsimRules(rules) == [i \in 1..Len(rules) |-> XsimRule(rules[i])]

IsVhdlSource(r) == r.fileset = <<"VHDL-RTL">> \/ r.fileset = <<"VHDL-SIM">>

IsPyModel(r) == r.fileset = <<"PY-MODEL">>

vhdl_sources(rules) ==
    LET kept == SelectSeq(rules, IsVhdlSource)
    IN  [i \in 1..Len(kept) |-> [lib |-> kept[i].identifier, path |-> kept[i].path]]

LastPyModel(rules) ==
    LET kept == SelectSeq(rules, IsPyModel)
    IN  IF kept = <<>> THEN <<>> ELSE kept[Len(kept)].path

(* generics += [Generic.from_str(arg)]: a token without "=" is kept as None *)
XsimGenerics(tokens) == [i \in 1..Len(tokens) |-> from_str(tokens[i])]

(* item.to_str() on None raises AttributeError *)
HasNone(gs) == \E i \in 1..Len(gs) : gs[i] = None

PyGenerics(gs) == [i \in 1..Len(gs) |-> <<"-g=">> \o to_str(gs[i])]

RECURSIVE GenericTop(_)
GenericTop(gs) ==
    IF gs = <<>> THEN <<>>
    ELSE <<<<"-generic_top">>, to_str(Head(gs))>> \o GenericTop(Tail(gs))

Goto(label) == [pc |-> label, code |-> -1]
Halt(code) == [pc |-> "exit", code |-> code]
Jump(j) == pc' = j.pc /\ exitcode' = j.code

xsimt_start ==
    /\ driver = "xsimt" /\ pc = "start"
    /\ LET rules == ReadLines(blueprint)
       IN  IF ~(args.comp \/ args.elab \/ args.sim)
             THEN Jump(Halt(0)) /\ UNCHANGED <<generics, order, py_model>>
           ELSE IF ~XsimRulesOk(rules)
             THEN /\ Jump(Halt(1))
                  /\ generics' = XsimGenerics(args.generic)
                  /\ UNCHANGED <<order, py_model>>
           ELSE /\ generics' = XsimGenerics(args.generic)
                /\ order' = vhdl_sources(XsimRules(rules))
                /\ py_model' = LastPyModel(XsimRules(rules))
                /\ Jump(Goto("model"))
    /\ UNCHANGED <<driver, args, env, blueprint, idx, libraries, work_lib, loc,
                   tcl, pushed, disk, log, live>>

xsimt_model ==
    /\ driver = "xsimt" /\ pc = "model"
    /\ IF py_model # <<>>
         THEN IF HasNone(generics)
                THEN Jump(Halt(1)) /\ UNCHANGED <<log, live>>
                ELSE /\ Spawn("python", <<py_model>> \o PyGenerics(generics))
                     /\ Jump(Goto("model_ret"))
         ELSE /\ Jump(IF args.script THEN Halt(0) ELSE Goto("compile"))
              /\ UNCHANGED <<log, live>>
    /\ UNCHANGED <<driver, args, env, blueprint, generics, order, idx, libraries,
                   work_lib, py_model, loc, tcl, pushed, disk>>

xsimt_model_ret ==
    /\ driver = "xsimt" /\ pc = "model_ret" /\ os_system_returned
    /\ Jump(IF InvokeFails(LastStatus, TRUE) THEN Halt(1)
            ELSE IF args.script THEN Halt(0) ELSE Goto("compile"))
    /\ UNCHANGED <<driver, args, env, blueprint, generics, order, idx, libraries,
                   work_lib, py_model, loc, tcl, pushed, disk, log, live>>

xsimt_xvhdl ==
    /\ driver = "xsimt" /\ pc = "compile" /\ args.comp /\ idx <= Len(order)
    /\ Spawn("xvhdl", <<<<"--incr">>, <<"--work">>, order[idx].lib, order[idx].path>>)
    /\ Jump(Goto("compile_ret"))
    /\ UNCHANGED <<driver, args, env, blueprint, generics, order, idx, libraries,
                   work_lib, py_model, loc, tcl, pushed, disk>>

xsimt_xvhdl_ret ==
    /\ driver = "xsimt" /\ pc = "compile_ret" /\ os_system_returned
    /\ IF InvokeFails(LastStatus, TRUE)
         THEN Jump(Halt(1)) /\ UNCHANGED idx
         ELSE Jump(Goto("compile")) /\ idx' = idx + 1
    /\ UNCHANGED <<driver, args, env, blueprint, generics, order, libraries,
                   work_lib, py_model, loc, tcl, pushed, disk, log, live>>

(* a script that takes the testbench for granted *)
BenchAssumed(bench) == FALSE

(* BENCH == None or len(BENCH) == 0 *)
NoBench(bench) == bench = <<>>

xsimt_xelab ==
    /\ driver = "xsimt" /\ pc = "compile" /\ (~args.comp \/ idx > Len(order))
    /\ IF NoBench(env.tb)
         THEN Jump(Halt(1)) /\ UNCHANGED <<log, live>>
       ELSE IF ~args.elab
         THEN Jump(Goto("sim")) /\ UNCHANGED <<log, live>>
       ELSE IF HasNone(generics)
         THEN Jump(Halt(1)) /\ UNCHANGED <<log, live>>
       ELSE /\ Spawn("xelab", <<<<"-debug">>, <<"typical">>, <<"-top">>, env.tb,
                                <<"-snapshot">>, env.tb>> \o GenericTop(generics))
            /\ Jump(Goto("elab_ret"))
    /\ UNCHANGED <<driver, args, env, blueprint, generics, order, idx, libraries,
                   work_lib, py_model, loc, tcl, pushed, disk>>

xsimt_xelab_ret ==
    /\ driver = "xsimt" /\ pc = "elab_ret" /\ os_system_returned
    /\ Jump(IF InvokeFails(LastStatus, TRUE) THEN Halt(1) ELSE Goto("sim"))
    /\ UNCHANGED <<driver, args, env, blueprint, generics, order, idx, libraries,
                   work_lib, py_model, loc, tcl, pushed, disk, log, live>>

BatchTcl == <<"log_wave -recursive *", "\n", "run all", "\n", "exit", "\n">>

XsimArgs(mode, snapshot) ==
    (IF mode # "review" THEN <<snapshot>> ELSE <<snapshot \o <<".wdb">>>>)
    \o (IF mode \in {"gui", "review"} THEN <<<<"--gui">>>> ELSE <<>>)
    \o (IF mode = "cl" THEN <<<<"--log">>, snapshot \o <<".log">>>> ELSE <<>>)
    \o (IF mode = "cl" THEN <<<<"--tclbatch">>, <<"batch.tcl">>>>
        ELSE IF mode = "review" THEN <<>> ELSE <<<<"-R">>>>)

(* wdb: whether <snapshot>.wdb is found on disk when the script looks *)
xsimt_xsim ==
    /\ driver = "xsimt" /\ pc = "sim"
    /\ IF args.mode = "cl" THEN Write("batch.tcl", BatchTcl) ELSE UNCHANGED disk
    /\ \E wdb \in BOOLEAN :
         IF args.mode = "review" /\ ~wdb
           THEN Jump(Halt(1)) /\ UNCHANGED <<log, live>>
         ELSE IF ~args.sim
           THEN Jump(Halt(0)) /\ UNCHANGED <<log, live>>
         ELSE /\ Spawn("xsim", XsimArgs(args.mode, env.tb))
              /\ Jump(Goto("sim_ret"))
    /\ UNCHANGED <<driver, args, env, blueprint, generics, order, idx, libraries,
                   work_lib, py_model, loc, tcl, pushed>>

(* errors: whether the simulation log holds an error or failure line *)
xsimt_xsim_ret ==
    /\ driver = "xsimt" /\ pc = "sim_ret" /\ os_system_returned
    /\ \E errors \in BOOLEAN :
         Jump(IF InvokeFails(LastStatus, TRUE) THEN Halt(1)
              ELSE IF args.mode = "cl" /\ errors THEN Halt(1)
              ELSE Halt(0))
    /\ UNCHANGED <<driver, args, env, blueprint, generics, order, idx, libraries,
                   work_lib, py_model, loc, tcl, pushed, disk, log, live>>

-----------------------------------------------------------------------------
(* scripts/xsim.py                                                          *)

XCompile(step) ==
    IF is_vhdl(step)
      THEN [cmd |-> "xvhdl", argv |-> <<<<"-incr">>, <<"-work">>, step.lib, step.path>>]
    ELSE IF is_vlog(step)
      THEN [cmd |-> "xvlog", argv |-> <<<<"-incr">>, <<"-work">>, step.lib, step.path>>]
    ELSE [cmd |-> "xvlog",
          argv |-> <<<<"-sv">>, <<"-incr">>, <<"-work">>, step.lib, step.path>>]

(* a top unit that is always looked up in the default library *)
TopInWork(lib, tb) == <<"work">> \o <<".">> \o tb

(* line 94: local_lib + '.' + TB_NAME *)
TopUnit(lib, tb) == lib \o <<".">> \o tb

xsims_start ==
    /\ driver = "xsims" /\ pc = "start"
    /\ IF ~ArgsOk(args.generic)
         THEN Exit(2) /\ UNCHANGED <<generics, order>>
       ELSE IF ~ParseOk(blueprint)
         THEN Exit(1) /\ UNCHANGED <<generics, order>>
       ELSE /\ generics' = ParseGenerics(args.generic)
            /\ order' = SelectSeq(Parse(blueprint), is_builtin)
            /\ pc' = "compile"
            /\ UNCHANGED exitcode
    /\ UNCHANGED <<driver, args, env, blueprint, idx, libraries, work_lib,
                   py_model, loc, tcl, pushed, disk, log, live>>

xsims_compile ==
    /\ driver = "xsims" /\ pc = "compile" /\ idx <= Len(order)
    /\ work_lib' = order[idx].lib
    /\ Spawn(XCompile(order[idx]).cmd, XCompile(order[idx]).argv)
    /\ pc' = "compile_ret"
    /\ UNCHANGED <<driver, args, env, blueprint, generics, order, idx, libraries,
                   py_model, loc, tcl, pushed, disk, exitcode>>

xsims_compile_ret ==
    /\ driver = "xsims" /\ pc = "compile_ret" /\ spawn_returned
    /\ IF UnwrapFails(LastStatus)
         THEN Exit(101) /\ UNCHANGED idx
         ELSE pc' = "compile" /\ idx' = idx + 1 /\ UNCHANGED exitcode
    /\ UNCHANGED <<driver, args, env, blueprint, generics, order, libraries,
                   work_lib, py_model, loc, tcl, pushed, disk, log, live>>

xsims_xelab ==
    /\ driver = "xsims" /\ pc = "compile" /\ idx > Len(order)
    /\ IF args.mode = "comp"
         THEN Exit(0) /\ UNCHANGED <<log, live>>
       ELSE IF env.tb = <<>>
         THEN Exit(101) /\ UNCHANGED <<log, live>>
       ELSE /\ Spawn("xelab", <<<<"-debug">>, <<"typical">>, <<"-top">>,
                                TopUnit(work_lib, env.tb),
                                <<"-snapshot">>, env.tb>> \o GenericTop(generics))
            /\ pc' = "elab_ret"
            /\ UNCHANGED exitcode
    /\ UNCHANGED <<driver, args, env, blueprint, generics, order, idx, libraries,
                   work_lib, py_model, loc, tcl, pushed, disk>>

xsims_tcl ==
    /\ driver = "xsims" /\ pc = "elab_ret" /\ spawn_returned
    /\ IF UnwrapFails(LastStatus)
         THEN Exit(101) /\ UNCHANGED <<tcl, pushed, disk>>
       ELSE IF args.mode = "elab"
         THEN Exit(0) /\ UNCHANGED <<tcl, pushed, disk>>
       ELSE /\ Emit(<<R("log_wave -recursive *"), P(<<Q("run"), Q("all")>>),
                      P(<<Q("exit")>>)>>)
            /\ Write(TCL_FILE, tcl'.data)
            /\ pc' = "xsim"
            /\ UNCHANGED exitcode
    /\ UNCHANGED <<driver, args, env, blueprint, generics, order, idx, libraries,
                   work_lib, py_model, loc, log, live>>

xsims_xsim ==
    /\ driver = "xsims" /\ pc = "xsim"
    /\ Spawn("xsim", <<env.tb, <<"-R">>, <<"-tclbatch">>, <<TCL_FILE>>>>)
    /\ pc' = "sim_ret"
    /\ UNCHANGED <<driver, args, env, blueprint, generics, order, idx, libraries,
                   work_lib, py_model, loc, tcl, pushed, disk, exitcode>>

xsims_xsim_ret ==
    /\ driver = "xsims" /\ pc = "sim_ret" /\ spawn_returned
    /\ Exit(IF UnwrapFails(LastStatus) THEN 101 ELSE 0)
    /\ UNCHANGED <<driver, args, env, blueprint, generics, order, idx, libraries,
                   work_lib, py_model, loc, tcl, pushed, disk, log, live>>

-----------------------------------------------------------------------------
(* scripts/quartz.py                                                        *)

PROJECT == <<"ip">>

quote_str(s) == <<"\"">> \o s \o <<"\"">>

(* stage flags that are each taken as given, a later one implying nothing *)
FlowAsGiven(a) ==
    [flow |-> IF a.compile THEN <<"-compile">> ELSE <<>>,
     synth |-> ~a.compile /\ a.synth, impl |-> ~a.compile /\ a.route,
     sta |-> ~a.compile /\ a.sta, asm |-> ~a.compile /\ a.bit,
     eda_netlist |-> ~a.compile /\ a.eda_netlist,
     FAMILY |-> IF ~a.compile /\ a.eda_netlist THEN <<"MAXII">> ELSE a.family,
     DEVICE |-> IF ~a.compile /\ a.eda_netlist THEN <<"EPM2210F324I5">> ELSE a.device]

(* stage flags that are set although --compile is given *)
FlowStagesToo(a) ==
    LET eda == a.eda_netlist
        asm == a.bit \/ a.eda_netlist
        sta == a.sta \/ a.bit \/ a.eda_netlist
        impl == a.route \/ a.sta \/ a.bit \/ a.eda_netlist
        synth == a.synth \/ a.route \/ a.sta \/ a.bit \/ a.eda_netlist
    IN  [flow |-> IF a.compile THEN <<"-compile">> ELSE <<>>,
         synth |-> synth, impl |-> impl, sta |-> sta, asm |-> asm, eda_netlist |-> eda,
         FAMILY |-> IF eda THEN <<"MAXII">> ELSE a.family,
         DEVICE |-> IF eda THEN <<"EPM2210F324I5">> ELSE a.device]

(* lines 65-90: the stage flags and the device forced by the EDA stage *)
Flow(a) ==
    LET eda == ~a.compile /\ a.eda_netlist
        asm == ~a.compile /\ (a.bit \/ a.eda_netlist)
        sta == ~a.compile /\ (a.sta \/ a.bit \/ a.eda_netlist)
        impl == ~a.compile /\ (a.route \/ a.sta \/ a.bit \/ a.eda_netlist)
        synth == ~a.compile /\ (a.synth \/ a.route \/ a.sta \/ a.bit \/ a.eda_netlist)
    IN  [flow |-> IF a.compile THEN <<"-compile">> ELSE <<>>,
         synth |-> synth, impl |-> impl, sta |-> sta, asm |-> asm, eda_netlist |-> eda,
         FAMILY |-> IF eda THEN <<"MAXII">> ELSE a.family,
         DEVICE |-> IF eda THEN <<"EPM2210F324I5">> ELSE a.device]

Dirs == {"boards/"}

Exts == {".board", ".vhd", ".v", ".sv", ".xdc"}

(* os.path.basename: what follows the last directory of the path *)
RECURSIVE basename(_)
basename(path) ==
    IF \E i \in 1..Len(path) : path[i] \in Dirs THEN basename(Tail(path)) ELSE path

(* os.path.splitext(...)[0] *)
stem(path) ==
    LET base == basename(path)
    IN  IF base # <<>> /\ base[Len(base)] \in Exts
          THEN SubSeq(base, 1, Len(base) - 1) ELSE base

IsBoard(step) == ~is_builtin(step) /\ ~is_aux(step, "BDF") /\ is_aux(step, "BOARD")

(* a loop that loads the first board file whatever name was asked for *)
LoadAnyBoard(steps, board, board_config) ==
    LET boards == SelectSeq(steps, IsBoard)
    IN  IF boards = <<>> THEN board_config ELSE boards[1].path

(* lines 99-115: the board file kept after the loop over the blueprint; *)
(* <<>> is None                                                         *)
RECURSIVE LoadBoard(_, _, _)
LoadBoard(steps, board, board_config) ==
    IF steps = <<>> THEN board_config
    ELSE LET step == Head(steps)
             loaded ==
                 IF is_builtin(step) \/ is_aux(step, "BDF") THEN board_config
                 ELSE IF is_aux(step, "BOARD")
                   THEN IF board_config = <<>> /\ board = <<>> THEN step.path
                        ELSE IF stem(step.path) = board THEN step.path
                        ELSE board_config
                 ELSE board_config
         IN  LoadBoard(Tail(steps), board, loaded)

IsBdf(step) == ~is_builtin(step) /\ is_aux(step, "BDF")

(* toml.load(path): the board files on disk *)
BoardFile(path) ==
    IF stem(path) = <<"b1">>
      THEN [part |-> [FAMILY |-> <<"MAX10">>, DEVICE |-> <<"10M50DA">>],
            pins |-> <<[pin |-> <<"PIN_P11">>, port |-> <<"clk">>]>>]
    ELSE IF stem(path) = <<"b4">>
      THEN [part |-> [DEVICE |-> <<"10AX">>]]
    ELSE [part |-> [FAMILY |-> <<"ARRIA">>, DEVICE |-> <<"10AX">>]]

(* board_config["part"]["FAMILY"], board_config["part"]["DEVICE"]: a key *)
(* the file does not hold raises KeyError                                *)
KeyError(board_config) ==
    \/ "part" \notin DOMAIN BoardFile(board_config)
    \/ "FAMILY" \notin DOMAIN BoardFile(board_config).part
    \/ "DEVICE" \notin DOMAIN BoardFile(board_config).part

HasPins(board_config) ==
    board_config # <<>> /\ "pins" \in DOMAIN BoardFile(board_config)

Push(code, end, raw) == [op |-> "push", code |-> code, end |-> end, raw |-> raw]

RT(text) == Push(text, <<"\n">>, TRUE)

PROJECT_SETTINGS(family, device) ==
    <<"# Quartus project TCL script automatically generated by Orbit. DO NOT EDIT.\n",
      "load_package flow\n", "\n", "#### General project settings ####\n", "\n",
      "# Create the project and overwrite any settings or files that exist\n",
      "project_new ">> \o quote_str(PROJECT) \o <<" -revision ">> \o quote_str(PROJECT)
    \o <<" -overwrite\n",
      "# Set default configurations and device\n",
      "set_global_assignment -name NUM_PARALLEL_PROCESSORS ">> \o quote_str(<<"ALL">>)
    \o <<"\n",
      "set_global_assignment -name VHDL_INPUT_VERSION VHDL_1993\n",
      "set_global_assignment -name VERILOG_INPUT_VERSION SYSTEMVERILOG_2005\n",
      "set_global_assignment -name EDA_SIMULATION_TOOL \"ModelSim-Altera (VHDL)\"\n",
      "set_global_assignment -name EDA_OUTPUT_DATA_FORMAT \"VHDL\" -section_id EDA_SIMULATION\n",
      "set_global_assignment -name EDA_GENERATE_FUNCTIONAL_NETLIST OFF -section_id EDA_SIMULATION\n",
      "set_global_assignment -name FAMILY ">> \o quote_str(family)
    \o <<"\n", "set_global_assignment -name DEVICE ">> \o quote_str(device)
    \o <<"\n",
      "# Use single uncompressed image with memory initialization file\n",
      "set_global_assignment -name EXTERNAL_FLASH_FALLBACK_ADDRESS 00000000\n",
      "set_global_assignment -name USE_CONFIGURATION_DEVICE OFF\n",
      "set_global_assignment -name INTERNAL_FLASH_UPDATE_MODE \"SINGLE IMAGE WITH ERAM\" \n",
      "# Configure tri-state for unused pins     \n",
      "set_global_assignment -name RESERVE_ALL_UNUSED_PINS_WEAK_PULLUP \"AS INPUT TRI-STATED\"\n">>

SourceFile(src) ==
    IF is_vhdl(src)
      THEN RT(<<"set_global_assignment -name VHDL_FILE ">> \o quote_str(src.path)
              \o <<" -library ">> \o quote_str(src.lib))
    ELSE IF is_vlog(src)
      THEN RT(<<"set_global_assignment -name VERILOG_FILE ">> \o quote_str(src.path)
              \o <<" -library ">> \o quote_str(src.lib))
    ELSE RT(<<"set_global_assignement -name SYSTEMVERILOG_FILE ">> \o quote_str(src.path)
            \o <<" -library ">> \o quote_str(src.lib))

SetParameter(g) ==
    RT(<<"set_parameter -name ">> \o quote_str(g.key) \o <<" ">> \o quote_str(g.val))

SetLocation(p) ==
    RT(<<"set_location_assignment ">> \o quote_str(p.pin) \o <<" -to ">> \o quote_str(p.port))

QuartzTcl(steps) ==
    LET src_files == SelectSeq(steps, is_builtin)
        bdf_files == SelectSeq(steps, IsBdf)
        pins == IF HasPins(loc.board_config)
                  THEN BoardFile(loc.board_config).pins ELSE <<>>
    IN  << RT(PROJECT_SETTINGS(loc.FAMILY, loc.DEVICE)),
           Push(<<"#### Application-specific settings ####">>, <<"\n\n">>, TRUE),
           R("# Add source code files to the project") >>
        \o [i \in 1..Len(src_files) |-> SourceFile(src_files[i])]
        \o [i \in 1..Len(bdf_files) |->
               RT(<<"set_global_assignment -name BDF_FILE ">>
                  \o quote_str(bdf_files[i].path))]
        \o << R("# Set the top level entity"),
              RT(<<"set_global_assignment -name TOP_LEVEL_ENTITY ">> \o quote_str(TOP)) >>
        \o (IF Len(generics) > 0
              THEN <<R("# Set generics for top level entity")>>
                   \o [i \in 1..Len(generics) |-> SetParameter(generics[i])]
              ELSE <<>>)
        \o (IF HasPins(loc.board_config)
              THEN <<R("# Set the pin assignments")>>
                   \o [i \in 1..Len(pins) |-> SetLocation(pins[i])]
              ELSE <<>>)
        \o (IF loc.flow # <<>> THEN <<RT(<<"execute_flow ">> \o loc.flow)>> ELSE <<>>)
        \o <<R("project_close")>>

quartz_start ==
    /\ driver = "quartz" /\ pc = "start"
    /\ IF ~ArgsOk(args.generic)
         THEN Exit(2) /\ UNCHANGED <<generics, order, loc>>
       ELSE IF ~ParseOk(blueprint)
         THEN Exit(1) /\ UNCHANGED <<generics, order, loc>>
       ELSE LET f == Flow(args)
                board_config == LoadBoard(Parse(blueprint), args.board, <<>>)
                unmatched == board_config = <<>> /\ args.board # <<>>
                raised == board_config # <<>> /\ KeyError(board_config)
                FAMILY == IF board_config # <<>> /\ ~raised
                            THEN BoardFile(board_config).part.FAMILY ELSE f.FAMILY
                DEVICE == IF board_config # <<>> /\ ~raised
                            THEN BoardFile(board_config).part.DEVICE ELSE f.DEVICE
            IN  /\ generics' = ParseGenerics(args.generic)
                /\ order' = SelectSeq(Parse(blueprint), is_builtin)
                /\ loc' = [loc EXCEPT !.flow = f.flow, !.synth = f.synth, !.impl = f.impl,
                                      !.sta = f.sta, !.asm = f.asm,
                                      !.eda_netlist = f.eda_netlist,
                                      !.board_config = board_config,
                                      !.FAMILY = FAMILY, !.DEVICE = DEVICE]
                /\ IF unmatched THEN Exit(101)
                   ELSE IF raised THEN Exit(1)
                   ELSE IF FAMILY = <<>> THEN Exit(101)
                   ELSE IF DEVICE = <<>> THEN Exit(101)
                   ELSE pc' = "tcl" /\ UNCHANGED exitcode
    /\ UNCHANGED <<driver, args, env, blueprint, idx, libraries, work_lib,
                   py_model, tcl, pushed, disk, log, live>>

quartz_tcl ==
    /\ driver = "quartz" /\ pc = "tcl"
    /\ Emit(QuartzTcl(Parse(blueprint)))
    /\ pc' = "save"
    /\ UNCHANGED <<driver, args, env, blueprint, generics, order, idx, libraries,
                   work_lib, py_model, loc, disk, log, live, exitcode>>

quartz_save ==
    /\ driver = "quartz" /\ pc = "save"
    /\ save
    /\ pc' = "quartus_sh"
    /\ UNCHANGED <<driver, args, env, blueprint, generics, order, idx, libraries,
                   work_lib, py_model, loc, tcl, pushed, log, live, exitcode>>

quartz_sh ==
    /\ driver = "quartz" /\ pc = "quartus_sh"
    /\ Spawn("quartus_sh", <<<<"-t">>, <<TCL_FILE>>>>)
    /\ pc' = "sh_ret"
    /\ UNCHANGED <<driver, args, env, blueprint, generics, order, idx, libraries,
                   work_lib, py_model, loc, tcl, pushed, disk, exitcode>>

quartz_sh_ret ==
    /\ driver = "quartz" /\ pc = "sh_ret" /\ spawn_returned
    /\ IF UnwrapFails(LastStatus) THEN Exit(101) ELSE pc' = "flow" /\ UNCHANGED exitcode
    /\ UNCHANGED <<driver, args, env, blueprint, generics, order, idx, libraries,
                   work_lib, py_model, loc, tcl, pushed, disk, log, live>>

(* lines 227-241: the stage commands, in the order of the script *)
Stages ==
    << [on |-> loc.synth, cmd |-> "quartus_map", argv |-> <<PROJECT>>],
       [on |-> loc.impl, cmd |-> "quartus_fit", argv |-> <<PROJECT>>],
       [on |-> loc.sta, cmd |-> "quartus_sta", argv |-> <<PROJECT>>],
       [on |-> loc.asm, cmd |-> "quartus_asm", argv |-> <<PROJECT>>],
       [on |-> loc.eda_netlist, cmd |-> "quartus_eda",
        argv |-> <<PROJECT, <<"--simulation">>>>] >>

(* the first stage at or after k whose flag is set, Len(Stages) + 1 if none *)
RECURSIVE NextStage(_)
NextStage(k) ==
    IF k > Len(Stages) THEN k ELSE IF Stages[k].on THEN k ELSE NextStage(k + 1)

quartz_stage ==
    /\ driver = "quartz" /\ pc = "flow" /\ NextStage(idx) <= Len(Stages)
    /\ idx' = NextStage(idx)
    /\ log' = Append(log, [cmd |-> Stages[idx'].cmd, argv |-> Stages[idx'].argv,
                           at |-> <<pc, idx'>>, rc |-> Running])
    /\ live' = live \cup {Len(log) + 1}
    /\ pc' = "stage_ret"
    /\ UNCHANGED <<driver, args, env, blueprint, generics, order, libraries,
                   work_lib, py_model, loc, tcl, pushed, disk, exitcode>>

quartz_stage_ret ==
    /\ driver = "quartz" /\ pc = "stage_ret" /\ spawn_returned
    /\ IF UnwrapFails(LastStatus)
         THEN Exit(101) /\ UNCHANGED idx
         ELSE pc' = "flow" /\ idx' = idx + 1 /\ UNCHANGED exitcode
    /\ UNCHANGED <<driver, args, env, blueprint, generics, order, libraries,
                   work_lib, py_model, loc, tcl, pushed, disk, log, live>>

quartz_detect ==
    /\ driver = "quartz" /\ pc = "flow" /\ NextStage(idx) > Len(Stages)
    /\ IF args.prog_sram \/ args.prog_flash
         THEN Spawn("quartus_pgm", <<<<"-a">>>>) /\ pc' = "detect_ret"
         ELSE pc' = "open" /\ UNCHANGED <<log, live>>
    /\ UNCHANGED <<driver, args, env, blueprint, generics, order, idx, libraries,
                   work_lib, py_model, loc, tcl, pushed, disk, exitcode>>

(* error: whether the output of quartus_pgm -a starts with "Error " *)
quartz_detect_ret ==
    /\ driver = "quartz" /\ pc = "detect_ret" /\ spawn_returned
    /\ \E error \in BOOLEAN :
         IF UnwrapFails(LastStatus) \/ error
           THEN Exit(101) /\ UNCHANGED loc
           ELSE /\ loc' = [loc EXCEPT !.CABLE = <<"cable">>]
                /\ pc' = "program"
                /\ UNCHANGED exitcode
    /\ UNCHANGED <<driver, args, env, blueprint, generics, order, idx, libraries,
                   work_lib, py_model, tcl, pushed, disk, log, live>>

ProgArgs(operation) ==
    <<<<"-c">>, loc.CABLE, <<"-m">>, <<"jtag">>, <<"-o">>, operation>>

(* the bitstream files the assembler may have left in the working directory *)
Bitfiles == {PROJECT \o <<".sof">>, PROJECT \o <<".pof">>}

(* lines 260 and 267: os.path.exists *)
AlwaysExists(path, files) == TRUE

Exists(path, files) == path \in files

(* lines 259-271: the if / elif picks the file looked for *)
Bitfile == IF args.prog_sram THEN PROJECT \o <<".sof">> ELSE PROJECT \o <<".pof">>

Operation == IF args.prog_sram THEN <<"p", ";">> \o PROJECT \o <<".sof">>
                               ELSE <<"bpv", ";">> \o PROJECT \o <<".pof">>

(* files: the bitstream files on disk when the script looks *)
quartz_program ==
    /\ driver = "quartz" /\ pc = "program"
    /\ \E files \in SUBSET Bitfiles :
         /\ loc' = [loc EXCEPT !.found = files]
         /\ IF ~Exists(Bitfile, files)
              THEN Jump(Halt(1)) /\ UNCHANGED <<log, live>>
              ELSE /\ Spawn("quartus_pgm", ProgArgs(Operation))
                   /\ Jump(Goto("program_ret"))
    /\ UNCHANGED <<driver, args, env, blueprint, generics, order, idx, libraries,
                   work_lib, py_model, tcl, pushed, disk>>

quartz_program_ret ==
    /\ driver = "quartz" /\ pc = "program_ret" /\ spawn_returned
    /\ IF UnwrapFails(LastStatus) THEN Exit(101) ELSE pc' = "open" /\ UNCHANGED exitcode
    /\ UNCHANGED <<driver, args, env, blueprint, generics, order, idx, libraries,
                   work_lib, py_model, loc, tcl, pushed, disk, log, live>>

quartz_open ==
    /\ driver = "quartz" /\ pc = "open"
    /\ IF args.open
         THEN /\ Spawn("quartus", <<PROJECT \o <<".qpf">>>>)
              /\ Jump(Goto("open_ret"))
         ELSE Jump(Halt(0)) /\ UNCHANGED <<log, live>>
    /\ UNCHANGED <<driver, args, env, blueprint, generics, order, idx, libraries,
                   work_lib, py_model, loc, tcl, pushed, disk>>

quartz_open_ret ==
    /\ driver = "quartz" /\ pc = "open_ret" /\ spawn_returned
    /\ Exit(IF UnwrapFails(LastStatus) THEN 101 ELSE 0)
    /\ UNCHANGED <<driver, args, env, blueprint, generics, order, idx, libraries,
                   work_lib, py_model, loc, tcl, pushed, disk, log, live>>

-----------------------------------------------------------------------------
(* The specifications.                                                      *)

NoFiles == [name \in {} |-> 0]

NoLocals == [vhdl_count |-> 0, vlog_count |-> 0, flow |-> <<>>, synth |-> FALSE,
             impl |-> FALSE, sta |-> FALSE, asm |-> FALSE, eda_netlist |-> FALSE,
             FAMILY |-> <<>>, DEVICE |-> <<>>, board_config |-> <<>>,
             CABLE |-> <<"USB-Blaster">>, found |-> {}]

Init ==
    /\ driver \in Drivers
    /\ pc = "start"
    /\ args \in ArgsOf(driver)
    /\ env \in EnvOf(driver)
    /\ blueprint \in SeqsUpTo(LinesOf(driver), MaxLines)
    /\ generics = <<>>
    /\ order = <<>>
    /\ idx = 1
    /\ libraries = <<>>
    /\ work_lib = <<"work">>
    /\ py_model = <<>>
    /\ loc = NoLocals
    /\ tcl = NewTcl
    /\ pushed = <<>>
    /\ disk = NoFiles
    /\ log = <<>>
    /\ live = {}
    /\ exitcode = -1
    /\ gen_s = <<>> /\ gen_g = Unparsed /\ gen_out = <<>>
    /\ called = [op |-> "none"]

Next ==
    \/ (ChildExit /\ UNCHANGED genvars)
    \/ (gsim_start /\ UNCHANGED genvars)
    \/ (gsim_analyze /\ UNCHANGED genvars)
    \/ (gsim_analyze_ret /\ UNCHANGED genvars)
    \/ (gsim_simulate /\ UNCHANGED genvars)
    \/ (gsim_sim_ret /\ UNCHANGED genvars)
    \/ (msim_start /\ UNCHANGED genvars)
    \/ (msim_vlib /\ UNCHANGED genvars)
    \/ (msim_vmap /\ UNCHANGED genvars)
    \/ (msim_vmap_ret /\ UNCHANGED genvars)
    \/ (msim_compile /\ UNCHANGED genvars)
    \/ (msim_compile_ret /\ UNCHANGED genvars)
    \/ (msim_simulate /\ UNCHANGED genvars)
    \/ (msim_sim_ret /\ UNCHANGED genvars)
    \/ (vsim_start /\ UNCHANGED genvars)
    \/ (vsim_verilator_ret /\ UNCHANGED genvars)
    \/ (voodoo_start /\ UNCHANGED genvars)
    \/ (voodoo_step /\ UNCHANGED genvars)
    \/ (voodoo_flows /\ UNCHANGED genvars)
    \/ (voodoo_save /\ UNCHANGED genvars)
    \/ (voodoo_vivado /\ UNCHANGED genvars)
    \/ (voodoo_exit /\ UNCHANGED genvars)
    \/ (xpro_start /\ UNCHANGED genvars)
    \/ (xpro_step /\ UNCHANGED genvars)
    \/ (xpro_settings /\ UNCHANGED genvars)
    \/ (xpro_save /\ UNCHANGED genvars)
    \/ (xpro_vivado /\ UNCHANGED genvars)
    \/ (xpro_exit /\ UNCHANGED genvars)
    \/ (xsimt_start /\ UNCHANGED genvars)
    \/ (xsimt_model /\ UNCHANGED genvars)
    \/ (xsimt_model_ret /\ UNCHANGED genvars)
    \/ (xsimt_xvhdl /\ UNCHANGED genvars)
    \/ (xsimt_xvhdl_ret /\ UNCHANGED genvars)
    \/ (xsimt_xelab /\ UNCHANGED genvars)
    \/ (xsimt_xelab_ret /\ UNCHANGED genvars)
    \/ (xsimt_xsim /\ UNCHANGED genvars)
    \/ (xsimt_xsim_ret /\ UNCHANGED genvars)
    \/ (xsims_start /\ UNCHANGED genvars)
    \/ (xsims_compile /\ UNCHANGED genvars)
    \/ (xsims_compile_ret /\ UNCHANGED genvars)
    \/ (xsims_xelab /\ UNCHANGED genvars)
    \/ (xsims_tcl /\ UNCHANGED genvars)
    \/ (xsims_xsim /\ UNCHANGED genvars)
    \/ (xsims_xsim_ret /\ UNCHANGED genvars)
    \/ (quartz_start /\ UNCHANGED genvars)
    \/ (quartz_tcl /\ UNCHANGED genvars)
    \/ (quartz_save /\ UNCHANGED genvars)
    \/ (quartz_sh /\ UNCHANGED genvars)
    \/ (quartz_sh_ret /\ UNCHANGED genvars)
    \/ (quartz_stage /\ UNCHANGED genvars)
    \/ (quartz_stage_ret /\ UNCHANGED genvars)
    \/ (quartz_detect /\ UNCHANGED genvars)
    \/ (quartz_detect_ret /\ UNCHANGED genvars)
    \/ (quartz_program /\ UNCHANGED genvars)
    \/ (quartz_program_ret /\ UNCHANGED genvars)
    \/ (quartz_open /\ UNCHANGED genvars)
    \/ (quartz_open_ret /\ UNCHANGED genvars)

Spec == Init /\ [][Next]_vars

GenericNext ==
    \/ (GenericParse /\ UNCHANGED progvars)
    \/ (GenericSerialize /\ UNCHANGED progvars)

InitGeneric ==
    /\ GenericInit
    /\ driver = "none" /\ pc = "exit" /\ args = NoArgs /\ env = NoEnv
    /\ blueprint = <<>> /\ generics = <<>> /\ order = <<>> /\ idx = 1
    /\ libraries = <<>> /\ work_lib = <<>> /\ py_model = <<>> /\ loc = NoLocals
    /\ tcl = NewTcl /\ pushed = <<>> /\ disk = NoFiles
    /\ log = <<>> /\ live = {} /\ exitcode = 0

SpecGeneric == InitGeneric /\ [][GenericNext]_vars

-----------------------------------------------------------------------------
(* The Tcl builder on its own: any sequence of push, indent, dedent and     *)
(* save calls on one Tcl('orbit.tcl').                                      *)

(* token lists and raw texts as the scripts push them *)
Codes == {<<Q("set")>>, <<Q("puts"), Q("x")>>, <<Q("set"), Esc("["), Q("x"), Esc("]")>>}

RawCodes == {<<"}">>}

Ends == {<<"\n">>, <<"\n\n">>}

TclPush ==
    /\ Len(pushed) < MaxPushes
    /\ \E raw \in BOOLEAN, end \in Ends :
         \E code \in (IF raw THEN RawCodes ELSE Codes) :
             /\ tcl' = push(tcl, code, end, raw)
             /\ pushed' = Append(pushed, PushText(code, end, raw, tcl.indent))
             /\ called' = [op |-> "push", code |-> code, end |-> end, raw |-> raw,
                           depth |-> tcl.indent]
    /\ UNCHANGED disk

TclIndent ==
    /\ tcl.indent < MaxDepth
    /\ tcl' = indent(tcl)
    /\ called' = [op |-> "indent", depth |-> tcl.indent]
    /\ UNCHANGED <<pushed, disk>>

TclDedent ==
    /\ tcl' = dedent(tcl)
    /\ called' = [op |-> "dedent", depth |-> tcl.indent]
    /\ UNCHANGED <<pushed, disk>>

TclSave ==
    /\ TCL_FILE \in DOMAIN disk => disk[TCL_FILE].writes < MaxSaves
    /\ save
    /\ called' = [op |-> "save", depth |-> tcl.indent]
    /\ UNCHANGED <<tcl, pushed>>

tclrest == <<driver, pc, args, env, blueprint, generics, order, idx, libraries,
             work_lib, py_model, loc, log, live, exitcode, gen_s, gen_g, gen_out>>

TclNext ==
    \/ (TclPush /\ UNCHANGED tclrest)
    \/ (TclIndent /\ UNCHANGED tclrest)
    \/ (TclDedent /\ UNCHANGED tclrest)
    \/ (TclSave /\ UNCHANGED tclrest)

InitTcl ==
    /\ driver = "tcl" /\ pc = "exit" /\ args = NoArgs /\ env = NoEnv
    /\ blueprint = <<>> /\ generics = <<>> /\ order = <<>> /\ idx = 1
    /\ libraries = <<>> /\ work_lib = <<>> /\ py_model = <<>> /\ loc = NoLocals
    /\ tcl = NewTcl /\ pushed = <<>> /\ disk = NoFiles
    /\ log = <<>> /\ live = {} /\ exitcode = 0
    /\ gen_s = <<>> /\ gen_g = Unparsed /\ gen_out = <<>>
    /\ called = [op |-> "none"]

SpecTcl == InitTcl /\ [][TclNext]_vars

-----------------------------------------------------------------------------
(* Properties.                                                              *)

LastArg(c) == c.argv[Len(c.argv)]

WellFormed == \A i \in 1..Len(blueprint) : Len(Split(blueprint[i], "\t", -1)) = 3

(* the paths of the blueprint's lines whose tag is in tags, in line order *)
Restricted(tags) ==
    LET Kept(line) == Len(Split(line, "\t", -1)) = 3 /\ Split(line, "\t", -1)[1] \in tags
        kept == SelectSeq(blueprint, Kept)
    IN  [i \in 1..Len(kept) |-> Split(kept[i], "\t", -1)[3]]

IsGhdlAnalysis(c) == c.cmd = "ghdl" /\ c.argv[1] = <<"-a">>

IsMsimCompile(c) == c.cmd \in {"vcom", "vlog"}

(* a pushed line that reads a source file: "read_..." ... "path" \n *)
IsVoodooRead(text) ==
    Len(text) >= 6 /\ text[1] = "\"" /\ text[2] \in {"read_vhdl", "read_verilog", "read_xdc"}

(* the paths the driver has forwarded to its tool so far, in the order sent *)
C1_Forwarded ==
    CASE driver = "gsim" ->
           LET sent == SelectSeq(log, IsGhdlAnalysis)
           IN  [i \in 1..Len(sent) |-> LastArg(sent[i])]
      [] driver = "msim" ->
           LET sent == SelectSeq(log, IsMsimCompile)
           IN  [i \in 1..Len(sent) |-> LastArg(sent[i])]
      [] driver = "voodoo" ->
           LET sent == SelectSeq(pushed, IsVoodooRead)
           IN  [i \in 1..Len(sent) |-> <<sent[i][Len(sent[i]) - 3]>>]
      [] OTHER -> <<>>

C1_Expected ==
    CASE driver = "gsim" -> Restricted({<<"VHDL">>})
      [] driver = "msim" -> Restricted({<<"VHDL">>, <<"VLOG">>, <<"SYSV">>})
      [] driver = "voodoo" ->
           Restricted({<<"VHDL">>, <<"VLOG">>, <<"SYSV">>, <<"XDCF">>})
      [] OTHER -> <<>>

(* the loop over the records has run to its end *)
C1_LoopDone ==
    /\ pc # "start" /\ ArgsOk(args.generic)
    /\ \/ driver \in {"gsim", "msim"} /\ idx > Len(order)
       \/ driver = "voodoo" /\ idx > Len(blueprint)

(* C1: for a well-formed blueprint, the paths gsim, msim and voodoo forward *)
(* to ghdl -a, vcom/vlog and read_vhdl/read_verilog/read_xdc are at every   *)
(* moment a prefix of the blueprint's lines restricted to the tags the      *)
(* driver forwards, and are exactly that sequence once the loop over the    *)
(* records has ended: nothing is dropped, reordered or sent twice.          *)
C1_OrderPreserved ==
    (driver \in {"gsim", "msim", "voodoo"} /\ WellFormed) =>
        /\ IsPrefix(C1_Forwarded, C1_Expected)
        /\ C1_LoopDone => C1_Forwarded = C1_Expected

C1_Witness ==
    /\ driver = "voodoo" /\ WellFormed /\ C1_LoopDone
    /\ C1_Forwarded = <<<<"e.xdc">>, <<"a.vhd">>>>
    /\ TCL_FILE \in DOMAIN disk

(* C2: whenever the token holds a "=", from_str returns a Generic (never    *)
(* None) and to_str of it is the token again, atom for atom.                *)
C2_RoundTrip ==
    (gen_g # Unparsed /\ \E i \in 1..Len(gen_s) : gen_s[i] = "=") =>
        /\ gen_g # None
        /\ gen_out # <<>> => gen_out = gen_s

C2_Witness ==
    /\ gen_out = gen_s
    /\ Len(gen_s) >= 2
    /\ gen_s[1] = "="
    /\ \E i \in 2..Len(gen_s) : gen_s[i] = "="

BadGeneric == \E i \in 1..Len(args.generic) : from_str(args.generic[i]) = None

(* C3: in targets/xsim.py a -g argument without "=" stops the run before    *)
(* any subprocess: the python model, xvhdl, xelab and xsim are never        *)
(* spawned in a run that was given such an argument.                        *)
C3_NoSpawnOnBadGeneric ==
    (driver = "xsimt" /\ BadGeneric) => log = <<>>

TbUnset == driver \in {"gsim", "msim", "vsim", "xsimt"} /\ env.tb = <<>> /\ ~args.lint

IsSimulation(c) ==
    \/ c.cmd = "ghdl" /\ c.argv[1] = <<"-r">>
    \/ c.cmd \in {"vsim", "xelab", "xsim"}

(* C4 as stated: with the testbench variable unset and no --lint, the       *)
(* script exits with a non-zero code having spawned no subprocess at all.   *)
C4_ZeroSubprocesses ==
    (TbUnset /\ pc = "exit") => (exitcode # 0 /\ log = <<>>)

(* C4: with the testbench variable unset and no --lint (and, for            *)
(* targets/xsim.py, a toolflow selected and no --script), the script exits  *)
(* with a non-zero code and never spawns the simulation or elaboration      *)
(* tool (ghdl -r, vsim, xelab, xsim); the analysis subprocesses that come   *)
(* before the testbench check may have been spawned.                        *)
C4_NoSimulation ==
    (/\ TbUnset
     /\ driver = "xsimt" => ((args.comp \/ args.elab \/ args.sim) /\ ~args.script))
    => /\ \A i \in 1..Len(log) : ~IsSimulation(log[i])
       /\ pc = "exit" => exitcode # 0

C4_Witness ==
    /\ TbUnset /\ driver = "msim" /\ pc = "exit" /\ exitcode = 101
    /\ Len(log) >= 3
    /\ \A i \in 1..Len(log) : log[i].rc = 0

IsSuffix(s, t) == Len(s) <= Len(t) /\ SubSeq(t, Len(t) - Len(s) + 1, Len(t)) = s

(* the overrides an argument vector carries, in the order they appear: an   *)
(* argument carries a token when it ends with the token's text              *)
Carried(argv) ==
    LET Carries(arg) == \E i \in 1..Len(args.generic) : IsSuffix(args.generic[i], arg)
        with == SelectSeq(argv, Carries)
    IN  [j \in 1..Len(with) |->
            CHOOSE t \in {args.generic[i] : i \in 1..Len(args.generic)} :
                IsSuffix(t, with[j])]

IsFinalInvocation(c) ==
    \/ driver = "gsim" /\ c.cmd = "ghdl" /\ c.argv[1] = <<"-r">>
    \/ driver = "msim" /\ c.cmd = "vsim"
    \/ driver = "xsims" /\ c.cmd = "xelab"
    \/ driver = "vsim" /\ c.cmd = "verilator"

(* C5: the final simulator invocation of gsim, msim, scripts/xsim and vsim  *)
(* carries every override of the command line exactly once, in the order    *)
(* of the command line.                                                     *)
C5_GenericsForwarded ==
    \A i \in 1..Len(log) :
        IsFinalInvocation(log[i]) => Carried(log[i].argv) = args.generic

(* C6: in quartz, msim and targets/xsim.py a subprocess that returned a     *)
(* non-zero code is the last one of the run, and no command of the pipeline *)
(* (a statement, at one iteration of its loop) is spawned twice.            *)
C6_HardGate ==
    driver \in {"quartz", "msim", "xsimt"} =>
        /\ \A i \in 1..Len(log) : log[i].rc \notin {Running, 0} => i = Len(log)
        /\ \A i, j \in 1..Len(log) :
               (log[i].at = log[j].at /\ log[i].cmd = log[j].cmd) => i = j

C6_Witness ==
    /\ driver = "quartz" /\ pc = "exit" /\ exitcode = 101
    /\ Len(log) = 3
    /\ log[1].rc = 0 /\ log[2].rc = 0 /\ log[3].rc = 1
    /\ loc.asm

(* C7: a driver exits with 0 only if every subprocess it spawned exited     *)
(* with 0.                                                                  *)
C7_ExitReflectsFailure ==
    (pc = "exit" /\ exitcode = 0) => \A i \in 1..Len(log) : log[i].rc = 0

(* C8: at most one child process is alive, and a subprocess is spawned      *)
(* only when every subprocess spawned before it has ended.                  *)
C8_OneChildAlive ==
    /\ Cardinality(live) <= 1
    /\ \A i \in 1..Len(log) : log[i].rc = Running => i = Len(log)

C8_Witness ==
    /\ driver = "xsimt"
    /\ Len(log) = 2 /\ live = {2}
    /\ log[1].rc = 0 /\ log[2].rc = Running

IsVivado(c) == c.cmd = "vivado"

(* C9: in voodoo and xpro orbit.tcl is written at most once, its text is    *)
(* the concatenation of everything pushed in the run (so no push follows    *)
(* the save), vivado is spawned only after the save, and a run that ends    *)
(* with 0 has saved it.                                                     *)
C9_SavedOnce ==
    driver \in {"voodoo", "xpro"} =>
        /\ TCL_FILE \in DOMAIN disk =>
               /\ disk[TCL_FILE].writes = 1
               /\ disk[TCL_FILE].text = Concat(pushed)
        /\ (\E i \in 1..Len(log) : IsVivado(log[i])) => TCL_FILE \in DOMAIN disk
        /\ (pc = "exit" /\ exitcode = 0) => TCL_FILE \in DOMAIN disk

C9_Witness ==
    /\ driver = "xpro" /\ pc = "exit"
    /\ Len(log) = 1 /\ IsVivado(log[1])
    /\ disk[TCL_FILE].writes = 1
    /\ Len(pushed) >= 8
    /\ disk[TCL_FILE].text = Concat(pushed)

ShortLine == \E i \in 1..Len(blueprint) : Len(Split(blueprint[i], "\t", -1)) < 3

(* C10 as stated: in voodoo, xpro and targets/xsim.py a line with fewer     *)
(* than three fields makes the run fail: nothing is saved, nothing is       *)
(* spawned, and the exit code is not 0.                                     *)
C10_ShortLineFails ==
    (driver \in {"voodoo", "xpro", "xsimt"} /\ ShortLine) =>
        /\ log = <<>>
        /\ TCL_FILE \notin DOMAIN disk
        /\ pc = "exit" => exitcode # 0

(* C10: in voodoo, xpro and targets/xsim.py a line with fewer than three    *)
(* fields lets nothing be saved and nothing be spawned, and the run ends    *)
(* with a non-zero code, except that targets/xsim.py run without a          *)
(* toolflow option ends with 0 before it opens the blueprint; a blueprint   *)
(* whose lines all have exactly three fields is read to its end (voodoo     *)
(* and xpro never end with the code of an uncaught error, targets/xsim.py   *)
(* keeps every VHDL record as (library, path)).                             *)
C10_ShortLineRejected ==
    /\ (driver \in {"voodoo", "xpro", "xsimt"} /\ ShortLine) =>
           /\ log = <<>>
           /\ TCL_FILE \notin DOMAIN disk
           /\ pc = "exit" =>
                  IF driver = "xsimt" /\ ~(args.comp \/ args.elab \/ args.sim)
                    THEN exitcode = 0 ELSE exitcode # 0
    /\ (driver \in {"voodoo", "xpro"} /\ WellFormed) => exitcode # 1
    /\ (driver = "xsimt" /\ pc \notin {"start", "exit"}) =>
           /\ WellFormed
           /\ order = vhdl_sources(XsimRules(ReadLines(blueprint)))

C10_Witness ==
    /\ driver = "voodoo" /\ pc = "exit" /\ exitcode = 1
    /\ blueprint = <<VhdlA, TwoFields>>
    /\ idx = 2
    /\ Len(pushed) = 2

(* the builder calls of a whole voodoo run over the lines given *)
RECURSIVE VoodooReads(_)
VoodooReads(lines) ==
    IF lines = <<>> THEN <<>>
    ELSE VoodooRead(VoodooSplit(Head(lines))) \o VoodooReads(Tail(lines))

(* the text of orbit.tcl a voodoo run writes for the lines given *)
VoodooScript(lines) ==
    RunTcl(NewTcl, <<P(<<Q("config_webtalk"), Q("-user"), Q("off")>>)>>
                   \o VoodooReads(lines)
                   \o VoodooFlows(StepValue(args.run))).data

Recognized(line) ==
    Split(line, "\t", -1)[1] \in {<<"VHDL">>, <<"VLOG">>, <<"SYSV">>, <<"XDCF">>}

(* C11: tags are matched exactly.  In voodoo the script written for a       *)
(* well-formed blueprint is the script of the same blueprint without the    *)
(* records whose tag is not exactly VHDL, VLOG, SYSV or XDCF, such a record *)
(* does not abort the run, and the vivado command is the same; in gsim the  *)
(* files sent to ghdl -a are never more than the records tagged VHDL.       *)
C11_ExactTagMatch ==
    /\ (driver = "voodoo" /\ WellFormed /\ TCL_FILE \in DOMAIN disk) =>
           disk[TCL_FILE].text = VoodooScript(SelectSeq(blueprint, Recognized))
    /\ (driver = "voodoo" /\ WellFormed /\ ArgsOk(args.generic) /\ pc = "exit") =>
           /\ exitcode = 0
           /\ Len(log) = 1
           /\ log[1].cmd = "vivado" /\ log[1].argv = VivadoArgs("batch")
    /\ driver = "gsim" =>
           /\ Len(SelectSeq(log, IsGhdlAnalysis)) <= Len(Restricted({<<"VHDL">>}))
           /\ \A i \in 1..Len(log) :
                  IsGhdlAnalysis(log[i]) =>
                      \E j \in 1..Len(blueprint) :
                          /\ Split(blueprint[j], "\t", -1)[1] = <<"VHDL">>
                          /\ Split(blueprint[j], "\t", -1)[3] = LastArg(log[i])

C11_Witness ==
    /\ driver = "voodoo" /\ pc = "exit" /\ exitcode = 0
    /\ blueprint = <<LowerF, VhdlA>>
    /\ disk[TCL_FILE].text = VoodooScript(<<VhdlA>>)
    /\ Len(log) = 1

(* quartz has read its command line and the whole blueprint *)
QuartzRead == driver = "quartz" /\ ArgsOk(args.generic) /\ ParseOk(blueprint)

BoardUsed == LoadBoard(Parse(blueprint), args.board, <<>>)

(* no FAMILY or no DEVICE comes from the options, the EDA stage or the      *)
(* board file that was loaded                                               *)
NoDevice ==
    IF BoardUsed = <<>>
      THEN Flow(args).FAMILY = <<>> \/ Flow(args).DEVICE = <<>>
      ELSE KeyError(BoardUsed)

(* C12: a quartz run that has determined no FAMILY or no DEVICE exits with  *)
(* code 101, writes no orbit.tcl and spawns no subprocess.                  *)
C12_NoDeviceExits101 ==
    (QuartzRead /\ NoDevice) =>
        /\ TCL_FILE \notin DOMAIN disk
        /\ log = <<>>
        /\ pc = "exit" => exitcode = 101

BoardAsked == QuartzRead /\ args.board # <<>>

(* the paths of the BOARD records whose file name, without its directory    *)
(* and extension, is the name asked for                                     *)
MatchingBoards ==
    LET Matches(line) ==
            LET f == Split(line, "\t", -1)
            IN  f[1] = <<"BOARD">> /\ <<f[3][Len(f[3]) - 1]>> = args.board
    IN  {Split(blueprint[i], "\t", -1)[3] : i \in {j \in 1..Len(blueprint) : Matches(blueprint[j])}}

(* C13: with --board NAME and no BOARD record of that name, quartz exits    *)
(* with 101, writes no orbit.tcl and spawns nothing; with a record of that  *)
(* name, the board file used is one of that name, and the device written    *)
(* comes from it.                                                           *)
C13_BoardByName ==
    /\ (BoardAsked /\ MatchingBoards = {}) =>
           /\ TCL_FILE \notin DOMAIN disk
           /\ log = <<>>
           /\ pc = "exit" => exitcode = 101
    /\ (BoardAsked /\ MatchingBoards # {} /\ pc # "start") =>
           /\ loc.board_config \in MatchingBoards
           /\ pc # "exit" =>
                  /\ loc.FAMILY = BoardFile(loc.board_config).part.FAMILY
                  /\ loc.DEVICE = BoardFile(loc.board_config).part.DEVICE

C13_Witness ==
    /\ BoardAsked /\ args.board = <<"b1">>
    /\ blueprint = <<Board2, Board1>>
    /\ loc.FAMILY = <<"MAX10">>
    /\ TCL_FILE \in DOMAIN disk
    /\ Len(log) = 1

IsProgramming(e) == e.cmd = "quartus_pgm" /\ e.argv[1] = <<"-c">>

Programmings == {i \in 1..Len(log) : IsProgramming(log[i])}

ProgramAsked == driver = "quartz" /\ (args.prog_sram \/ args.prog_flash)

(* C14: quartz spawns the programming command only when the bitstream it    *)
(* names is on disk (PROJECT.sof with --prog-sram, else PROJECT.pof with    *)
(* --prog-flash), at most once, with the detected cable; a run that was     *)
(* asked to program and ends without having spawned it ends non-zero; with  *)
(* both flags only the .sof is ever named.                                  *)
C14_ProgramOnlyIfBitstream ==
    driver = "quartz" =>
        /\ Cardinality(Programmings) <= 1
        /\ \A i \in Programmings :
               /\ ProgramAsked
               /\ log[i].argv = << <<"-c">>, <<"cable">>, <<"-m">>, <<"jtag">>, <<"-o">>,
                                   IF args.prog_sram
                                     THEN <<"p", ";", "ip", ".sof">>
                                     ELSE <<"bpv", ";", "ip", ".pof">> >>
               /\ (IF args.prog_sram THEN <<"ip", ".sof">> ELSE <<"ip", ".pof">>)
                      \in loc.found
        /\ (ProgramAsked /\ pc = "exit" /\ Programmings = {}) => exitcode \notin {-1, 0}

(* both flags, only the .pof on disk: the run ends with 1 after detection   *)
C14_Witness ==
    /\ driver = "quartz" /\ args.prog_sram /\ args.prog_flash
    /\ loc.found = {<<"ip", ".pof">>}
    /\ pc = "exit" /\ exitcode = 1
    /\ Len(log) = 2 /\ log[2].argv = << <<"-a">> >>

Script == disk[TCL_FILE].text

At(word) == {i \in 1..Len(Script) : Script[i] = word}

(* the first and the last command word of each stage's block, in stage order *)
Blocks ==
    << [first |-> "synth_design", last |-> "post_synth_util.rpt"],
       [first |-> "opt_design", last |-> "post_place_timing_summary.rpt"],
       [first |-> "route_design", last |-> "post_impl_drc.rpt"],
       [first |-> "write_verilog", last |-> "write_bitstream"],
       [first |-> "open_hw_manager", last |-> "program_hw_devices"] >>

Selected ==
    CASE args.run = "synth" -> 1 [] args.run = "impl" -> 2 [] args.run = "route" -> 3
      [] args.run = "bit" -> 4 [] args.run = "pgm" -> 5

ReadAt == At("read_vhdl") \cup At("read_verilog") \cup At("read_xdc")

(* C15: the orbit.tcl that voodoo saves for --run S holds the block of every *)
(* stage up to S once, of no stage above S, the blocks in the order synth,  *)
(* impl, route, bit, pgm, and every read_vhdl / read_verilog / read_xdc     *)
(* line before the first of them.                                           *)
C15_StagesUpToRun ==
    (driver = "voodoo" /\ TCL_FILE \in DOMAIN disk) =>
        /\ \A k \in 1..Len(Blocks) :
               IF k <= Selected
                 THEN /\ Cardinality(At(Blocks[k].first)) = 1
                      /\ Cardinality(At(Blocks[k].last)) = 1
                      /\ \A i \in At(Blocks[k].first), j \in At(Blocks[k].last) : i < j
                 ELSE At(Blocks[k].first) = {} /\ At(Blocks[k].last) = {}
        /\ \A k \in 1..(Selected - 1) :
               \A i \in At(Blocks[k].last), j \in At(Blocks[k + 1].first) : i < j
        /\ \A i \in ReadAt, j \in At("synth_design") : i < j

(* --run route over a blueprint with a source and a constraint file *)
C15_Witness ==
    /\ driver = "voodoo" /\ TCL_FILE \in DOMAIN disk
    /\ args.run = "route"
    /\ blueprint = <<VhdlA, XdcfE>>
    /\ At("read_vhdl") # {} /\ At("read_xdc") # {}
    /\ At("route_design") # {} /\ At("write_bitstream") = {}
    /\ At("program_hw_devices") = {}

StageTools == <<"quartus_map", "quartus_fit", "quartus_sta", "quartus_asm", "quartus_eda">>

IsStage(e) == \E k \in 1..Len(StageTools) : e.cmd = StageTools[k]

StageLog == SelectSeq(log, IsStage)

(* the deepest stage the command line asks for *)
Depth ==
    IF args.eda_netlist THEN 5 ELSE IF args.bit THEN 4 ELSE IF args.sta THEN 3
    ELSE IF args.route THEN 2 ELSE IF args.synth THEN 1 ELSE 0

(* C16: quartz without --compile: the stage flags are cumulative; the stage *)
(* commands spawned are, in order, the first ones of map, fit, sta, asm,    *)
(* eda, never beyond the deepest stage asked for, all after a               *)
(* `quartus_sh -t orbit.tcl` that exited with 0; each is spawned only after *)
(* the one before it exited with 0; a run that ends with 0 has spawned all  *)
(* of them up to the deepest stage asked for.                               *)
C16_StagesCumulative ==
    (driver = "quartz" /\ ~args.compile) =>
        /\ (QuartzRead /\ pc # "start") =>
               /\ loc.eda_netlist = (Depth >= 5) /\ loc.asm = (Depth >= 4)
               /\ loc.sta = (Depth >= 3) /\ loc.impl = (Depth >= 2)
               /\ loc.synth = (Depth >= 1)
               /\ loc.eda_netlist => loc.asm
               /\ loc.asm => loc.sta
               /\ loc.sta => loc.impl
               /\ loc.impl => loc.synth
        /\ Len(StageLog) <= Depth
        /\ \A k \in 1..Len(StageLog) :
               /\ StageLog[k].cmd = StageTools[k]
               /\ StageLog[k].argv[1] = <<"ip">>
               /\ k < Len(StageLog) => StageLog[k].rc = 0
        /\ StageLog # <<>> =>
               /\ log[1].cmd = "quartus_sh"
               /\ log[1].argv = << <<"-t">>, <<"orbit.tcl">> >>
               /\ log[1].rc = 0
               /\ \A i \in 2..Len(log) : i <= Len(StageLog) + 1 => IsStage(log[i])
        /\ (pc = "exit" /\ exitcode = 0) =>
               /\ Len(StageLog) = Depth
               /\ \A k \in 1..Len(StageLog) : StageLog[k].rc = 0

(* --bit alone: map, fit, sta and asm have run, in that order *)
C16_Witness ==
    /\ driver = "quartz" /\ ~args.compile
    /\ args.bit /\ ~args.synth /\ ~args.route /\ ~args.sta /\ ~args.eda_netlist
    /\ pc = "exit" /\ exitcode = 0
    /\ Len(StageLog) = 4 /\ StageLog[4].cmd = "quartus_asm"

(* C17: quartz with --compile writes `execute_flow -compile` once, before   *)
(* `project_close`, and spawns none of the five stage tools whatever stage  *)
(* flags come with it; without --compile the script has no execute_flow.    *)
C17_CompileThroughScript ==
    driver = "quartz" =>
        /\ TCL_FILE \in DOMAIN disk =>
               /\ Cardinality(At("project_close")) = 1
               /\ IF args.compile
                    THEN /\ Cardinality(At("execute_flow ")) = 1
                         /\ \A i \in At("execute_flow ") :
                                /\ Script[i + 1] = "-compile"
                                /\ Script[i + 2] = "\n"
                                /\ \A j \in At("project_close") : i < j
                    ELSE At("execute_flow ") = {}
        /\ args.compile =>
               /\ StageLog = <<>>
               /\ (pc = "exit" /\ exitcode = 0) =>
                      Len(log) = 1 /\ log[1].cmd = "quartus_sh"

(* --compile together with --synth and --eda-netlist *)
C17_Witness ==
    /\ driver = "quartz" /\ args.compile /\ args.synth /\ args.eda_netlist
    /\ pc = "exit" /\ exitcode = 0
    /\ At("execute_flow ") # {}
    /\ Len(log) = 1

EdaSelected == driver = "quartz" /\ ~args.compile /\ args.eda_netlist

(* C18: when the EDA timing-netlist stage is selected, the FAMILY and       *)
(* DEVICE assignments written to orbit.tcl are MAXII and EPM2210F324I5,     *)
(* whatever --family / --device say and whatever board file the blueprint   *)
(* holds.                                                                   *)
C18_EdaDeviceForced ==
    (EdaSelected /\ TCL_FILE \in DOMAIN disk) =>
        /\ \A i \in At("set_global_assignment -name FAMILY ") : Script[i + 2] = "MAXII"
        /\ \A i \in At("set_global_assignment -name DEVICE ") :
               Script[i + 2] = "EPM2210F324I5"

IsVlib(e, lib) == e.cmd = "vlib" /\ e.argv = <<lib>>

IsVmap(e, lib) == e.cmd = "vmap" /\ e.argv = <<lib, lib>>

(* the library a vcom / vlog command compiles into: what follows -work *)
CompiledInto(e) == e.argv[Len(e.argv) - 1]

OrderLibs ==
    {Split(blueprint[j], "\t", -1)[2] :
         j \in {n \in 1..Len(blueprint) :
                    Split(blueprint[n], "\t", -1)[1] \in {<<"VHDL">>, <<"VLOG">>, <<"SYSV">>}}}

(* C19: in msim every vcom / vlog into a library L comes after a `vlib L`   *)
(* and a later `vmap L L` that both exited with 0; no library is created or *)
(* mapped twice, a vmap always maps a library to itself directly after its  *)
(* vlib; once the whole compile order is compiled, every library of the     *)
(* blueprint has been created and mapped exactly once.                      *)
C19_LibraryBeforeCompile ==
    driver = "msim" =>
        /\ \A i \in 1..Len(log) :
               IsMsimCompile(log[i]) =>
                   \E a \in 1..Len(log), b \in 1..Len(log) :
                       /\ a < b /\ b < i
                       /\ IsVlib(log[a], CompiledInto(log[i])) /\ log[a].rc = 0
                       /\ IsVmap(log[b], CompiledInto(log[i])) /\ log[b].rc = 0
        /\ \A i \in 1..Len(log), j \in 1..Len(log) :
               (i # j /\ log[i].cmd = log[j].cmd /\ log[i].cmd \in {"vlib", "vmap"})
                   => log[i].argv # log[j].argv
        /\ \A i \in 1..Len(log) :
               log[i].cmd = "vmap" =>
                   /\ i > 1
                   /\ IsVlib(log[i - 1], log[i].argv[1]) /\ log[i - 1].rc = 0
                   /\ IsVmap(log[i], log[i].argv[1])
        /\ (WellFormed /\ ArgsOk(args.generic) /\ pc \in {"sim_ret", "exit"}
              /\ (pc = "exit" => exitcode = 0)) =>
               \A lib \in OrderLibs :
                   /\ Cardinality({i \in 1..Len(log) : IsVlib(log[i], lib)}) = 1
                   /\ Cardinality({i \in 1..Len(log) : IsVmap(log[i], lib)}) = 1

(* two records of one library: one vlib, one vmap, two compiles *)
C19_Witness ==
    /\ driver = "msim" /\ blueprint = <<VhdlA, VlogC>>
    /\ Len(log) >= 4
    /\ IsVlib(log[1], <<"work">>) /\ IsVmap(log[2], <<"work">>)
    /\ log[3].cmd = "vcom" /\ log[4].cmd = "vlog"
    /\ CompiledInto(log[4]) = <<"work">>

(* the library of the last blueprint record tagged VHDL, VLOG or SYSV,      *)
(* `work` when there is none                                                *)
LastHdlLib ==
    LET Hdl(line) == /\ Len(Split(line, "\t", -1)) = 3
                     /\ Split(line, "\t", -1)[1] \in {<<"VHDL">>, <<"VLOG">>, <<"SYSV">>}
        kept == SelectSeq(blueprint, Hdl)
    IN  IF kept = <<>> THEN <<"work">> ELSE Split(kept[Len(kept)], "\t", -1)[2]

(* the argument that follows the first occurrence of flag *)
ArgAfter(argv, flag) ==
    argv[1 + CHOOSE k \in 1..Len(argv) :
                 argv[k] = flag /\ \A j \in 1..(k - 1) : argv[j] # flag]

(* C20: the simulator is handed the library of the last HDL source record:  *)
(* in msim the -work argument of vsim is that library (work when the        *)
(* blueprint has no HDL record), and by then every HDL record has been      *)
(* compiled; in scripts/xsim the -top argument of xelab is that library,    *)
(* a dot, and the testbench name.                                           *)
C20_LastLibraryIsWork ==
    /\ driver = "msim" =>
           \A i \in 1..Len(log) :
               log[i].cmd = "vsim" =>
                   /\ ArgAfter(log[i].argv, <<"-work">>) = LastHdlLib
                   /\ Len(SelectSeq(log, IsMsimCompile))
                          = Len(Restricted({<<"VHDL">>, <<"VLOG">>, <<"SYSV">>}))
                   /\ i > 1 => CompiledInto(log[i - 1]) = LastHdlLib
    /\ driver = "xsims" =>
           \A i \in 1..Len(log) :
               log[i].cmd = "xelab" =>
                   ArgAfter(log[i].argv, <<"-top">>) = LastHdlLib \o <<".">> \o env.tb

(* msim after a.vhd in work and b.vhd in lib2 *)
C20_Witness ==
    /\ driver = "msim" /\ blueprint = <<VhdlA, VhdlB>>
    /\ log # <<>> /\ log[Len(log)].cmd = "vsim"
    /\ ArgAfter(log[Len(log)].argv, <<"-work">>) = <<"lib2">>

LintRun == driver \in {"gsim", "msim"} /\ args.lint

(* the number of records the script analyses: VHDL for gsim, VHDL, VLOG and *)
(* SYSV for msim                                                            *)
ToAnalyse ==
    Len(Restricted(IF driver = "gsim" THEN {<<"VHDL">>}
                                      ELSE {<<"VHDL">>, <<"VLOG">>, <<"SYSV">>}))

IsAnalysis(c) == IF driver = "gsim" THEN IsGhdlAnalysis(c) ELSE IsMsimCompile(c)

(* C21: with --lint, gsim and msim never spawn the simulation (ghdl -r,     *)
(* vsim), msim writes no orbit.do, and a run whose command line and         *)
(* blueprint are read and whose every subprocess exited with 0 ends with 0  *)
(* after all sources were analysed, the testbench variable set or not; a    *)
(* run ends with 0 only in that way.                                        *)
C21_LintStops ==
    LintRun =>
        /\ \A i \in 1..Len(log) : ~IsSimulation(log[i])
        /\ DO_FILE \notin DOMAIN disk
        /\ pc = "exit" =>
               (exitcode = 0) =
                   (/\ ArgsOk(args.generic) /\ WellFormed
                    /\ \A i \in 1..Len(log) : log[i].rc = 0
                    /\ Len(SelectSeq(log, IsAnalysis)) = ToAnalyse)

(* msim --lint with the testbench variable unset, two sources compiled *)
C21_Witness ==
    /\ LintRun /\ driver = "msim" /\ env.tb = <<>>
    /\ blueprint = <<VhdlA, VhdlB>>
    /\ pc = "exit" /\ exitcode = 0
    /\ Len(SelectSeq(log, IsAnalysis)) = 2

IsXCompile(c) == c.cmd \in {"xvhdl", "xvlog"}

XCommands(name) == {i \in 1..Len(log) : log[i].cmd = name}

XSources == Len(Restricted({<<"VHDL">>, <<"VLOG">>, <<"SYSV">>}))

(* every subprocess of a finished run returned 0 and the inputs were read *)
CleanRun ==
    /\ pc = "exit" /\ ArgsOk(args.generic) /\ WellFormed
    /\ \A i \in 1..Len(log) : log[i].rc = 0

(* C22: in scripts/xsim.py --mode fixes the last stage.  comp: no xelab, no *)
(* xsim, no orbit.tcl, and a clean run ends with 0 after the compiles even  *)
(* with the testbench variable unset.  elab: no xsim, no orbit.tcl, a run   *)
(* that ends with 0 ends after xelab.  sim: a run that ends with 0 has run  *)
(* the compiles, xelab, written orbit.tcl, and xsim.  In every mode xelab   *)
(* comes after all compile commands returned 0, orbit.tcl is written only   *)
(* after xelab returned 0, and xsim comes directly after that xelab with    *)
(* orbit.tcl on disk.                                                       *)
C22_ModeFixesLastStage ==
    driver = "xsims" =>
        /\ args.mode = "comp" =>
               /\ XCommands("xelab") = {} /\ XCommands("xsim") = {}
               /\ TCL_FILE \notin DOMAIN disk
               /\ CleanRun => (exitcode = 0 /\ Len(log) = XSources)
        /\ args.mode = "elab" =>
               /\ XCommands("xsim") = {}
               /\ TCL_FILE \notin DOMAIN disk
               /\ (pc = "exit" /\ exitcode = 0) =>
                      (Len(log) = XSources + 1 /\ log[Len(log)].cmd = "xelab")
        /\ (args.mode = "sim" /\ pc = "exit" /\ exitcode = 0) =>
               /\ Len(log) = XSources + 2
               /\ log[Len(log) - 1].cmd = "xelab" /\ log[Len(log)].cmd = "xsim"
               /\ TCL_FILE \in DOMAIN disk
        /\ \A i \in 1..Len(log) : IsXCompile(log[i]) => i <= XSources
        /\ \A i \in XCommands("xelab") :
               /\ i = XSources + 1
               /\ \A j \in 1..(i - 1) : IsXCompile(log[j]) /\ log[j].rc = 0
        /\ TCL_FILE \in DOMAIN disk =>
               \E i \in XCommands("xelab") : log[i].rc = 0
        /\ \A i \in XCommands("xsim") :
               /\ i = XSources + 2
               /\ log[i - 1].cmd = "xelab" /\ log[i - 1].rc = 0
               /\ TCL_FILE \in DOMAIN disk

(* --mode sim over two sources: xvhdl, xvlog, xelab, orbit.tcl, xsim *)
C22_Witness ==
    /\ driver = "xsims" /\ args.mode = "sim"
    /\ blueprint = <<VhdlA, VlogC>>
    /\ pc = "exit" /\ exitcode = 0
    /\ Len(log) = 4 /\ log[3].cmd = "xelab" /\ log[4].cmd = "xsim"
    /\ TCL_FILE \in DOMAIN disk

DoLines == Split(disk[DO_FILE].text, "\n", -1)

LinesWith(word) == {i \in 1..Len(DoLines) : DoLines[i] = <<word>>}

(* the lines that are neither `run -all` nor `quit` nor empty *)
WaveLines ==
    {i \in 1..Len(DoLines) : DoLines[i] \notin {<<"run -all">>, <<"quit">>, <<>>}}

(* C23: the orbit.do that msim writes has the line `quit` exactly when      *)
(* --gui is absent and the line `run -all` exactly when --stop-at-sim is    *)
(* not given; it has waveform lines only with --gui; the waveform lines     *)
(* come before `run -all`, which comes before `quit`; without --gui the     *)
(* text ends with `quit`; no blank line of an imported file is copied.      *)
C23_DoScript ==
    (driver = "msim" /\ DO_FILE \in DOMAIN disk) =>
        /\ (LinesWith("quit") # {}) = ~args.gui
        /\ (LinesWith("run -all") # {}) = ~args.stop_at_sim.given
        /\ WaveLines # {} => args.gui
        /\ \A i \in WaveLines, j \in LinesWith("run -all") \cup LinesWith("quit") : i < j
        /\ \A i \in LinesWith("run -all"), j \in LinesWith("quit") : i < j
        /\ ~args.gui =>
               /\ Len(DoLines) >= 2
               /\ DoLines[Len(DoLines) - 1] = <<"quit">> /\ DoLines[Len(DoLines)] = <<>>
        /\ \A i \in 1..Len(DoLines) : Strip(DoLines[i]) = <<>> => i = Len(DoLines)

Tagged(tags) == Len(Restricted(tags))

(* the language of the majority of the HDL records, verilog on a tie *)
Majority ==
    IF Tagged({<<"VHDL">>}) > Tagged({<<"VLOG">>, <<"SYSV">>}) THEN "VHDL" ELSE "verilog"

(* C24: the orbit.tcl that xpro saves sets target_language once, after      *)
(* every add_files line, to VHDL when the VHDL records outnumber the VLOG   *)
(* and SYSV records and to verilog otherwise (more VLOG and SYSV records, a *)
(* tie, or no HDL record).                                                  *)
C24_TargetLanguage ==
    (driver = "xpro" /\ TCL_FILE \in DOMAIN disk) =>
        /\ Cardinality(At("target_language")) = 1
        /\ \A i \in At("target_language") :
               /\ Script[i - 4] = "set_property"
               /\ Script[i + 4] = Majority
               /\ \A j \in At("add_files") : j < i
        /\ Cardinality(At("VHDL") \cup At("verilog")) = 1

(* one VHDL and one SYSV record: a tie, verilog *)
C24_Witness ==
    /\ driver = "xpro" /\ TCL_FILE \in DOMAIN disk
    /\ blueprint = <<VhdlA, SysvD>>
    /\ Cardinality(At("add_files")) = 2
    /\ At("verilog") # {} /\ At("VHDL") = {}

(* one line: the indentation once, each token followed by one space, the end *)
OneLine(code, end, depth) ==
    [i \in 1..depth |-> "  "]
    \o Concat([i \in 1..Len(code) |->
                  (IF code[i].esc THEN code[i].s ELSE <<"\"">> \o code[i].s \o <<"\"">>)
                  \o <<" ">>])
    \o end

NonRawPush == called.op = "push" /\ ~called.raw

(* C25: a non-raw push of a token list at depth d appends exactly one line: *)
(* the indentation of depth d once, then every token in list order (quoted  *)
(* unless it is an Esc) followed by one space, then the end string.         *)
C25_PushOneLine ==
    NonRawPush =>
        /\ pushed[Len(pushed)] = OneLine(called.code, called.end, called.depth)
        /\ IsSuffix(pushed[Len(pushed)], tcl.data)

(* C26: on a Tcl builder, whatever calls are made: the depth is never       *)
(* negative; indent adds 1 to it; dedent subtracts 1 but leaves 0 at 0;     *)
(* indent, dedent and save leave the accumulated text as it is, and save    *)
(* writes that text; a push leaves the depth as it is and the text it found *)
(* as a prefix of the text it leaves.                                       *)
C26_AppendOnly ==
    [][/\ tcl'.indent >= 0
       /\ IsPrefix(tcl.data, tcl'.data)
       /\ called'.op = "indent" =>
              (tcl'.indent = tcl.indent + 1 /\ tcl'.data = tcl.data)
       /\ called'.op = "dedent" =>
              /\ tcl'.indent = (IF tcl.indent = 0 THEN 0 ELSE tcl.indent - 1)
              /\ tcl'.data = tcl.data
       /\ called'.op = "save" =>
              (tcl' = tcl /\ disk'[TCL_FILE].text = tcl.data)
       /\ called'.op = "push" =>
              (tcl'.indent = tcl.indent /\ Len(tcl'.data) > Len(tcl.data))]_vars

(* a dedent at depth 0 after a push and a save *)
C26_Witness ==
    /\ driver = "tcl"
    /\ called.op = "dedent" /\ called.depth = 0
    /\ tcl.indent = 0 /\ tcl.data # <<>>
    /\ TCL_FILE \in DOMAIN disk /\ disk[TCL_FILE].text = tcl.data

=============================================================================
